---- MODULE Spec2Model ----
(***************************************************************************)
(* A model of the translation pipeline of src/translate.py                 *)
(* (class TranslationPipeline): dictionary preprocessing, the validity     *)
(* check, the remote client with its transport retries, the batch          *)
(* translator with its validation retries, the escalation ("second") pass, *)
(* the per-file run and the folder orchestrators.                          *)
(*                                                                         *)
(* A text is a sequence of Unicode code points, so that the validity       *)
(* check, strip(), split('\n'), lower() and the reply regex are modelled   *)
(* by what they do to characters.                                          *)
(***************************************************************************)
EXTENDS Integers, Sequences, FiniteSets, TLC

(***************************************************************************)
(* Texts                                                                   *)
(***************************************************************************)

\* Python's None (call_llm's failure value): a value that is no text, since no
\* character has a negative code point.
None == << -1 >>

\* "" : the empty text.
Empty == << >>

\* str.isspace for the characters of the model (ASCII white space).
IsSpace(c) ==
    c \in {9, 10, 11, 12, 13, 32}

\* \d of the reply regex, for the characters of the model (ASCII digits).
IsDigit(c) ==
    c \in 48..57

\* [\.\)\:] of the reply regex.
IsSeparator(c) ==
    c \in {46, 41, 58}

\* s[i:] (1-based first index i).
Drop(s, i) ==
    SubSeq(s, i, Len(s))

\* The number of leading characters of s that satisfy the test set.
RECURSIVE LeadingSpaces(_)
LeadingSpaces(s) ==
    IF s = << >> \/ ~IsSpace(Head(s)) THEN 0 ELSE 1 + LeadingSpaces(Tail(s))

RECURSIVE TrailingSpaces(_)
TrailingSpaces(s) ==
    IF s = << >> \/ ~IsSpace(s[Len(s)]) THEN 0
    ELSE 1 + TrailingSpaces(SubSeq(s, 1, Len(s) - 1))

RECURSIVE LeadingDigits(_)
LeadingDigits(s) ==
    IF s = << >> \/ ~IsDigit(Head(s)) THEN 0 ELSE 1 + LeadingDigits(Tail(s))

\* str.strip(): leading and trailing white space removed.
Strip(s) ==
    LET a == LeadingSpaces(s)
    IN  IF a = Len(s) THEN << >>
        ELSE SubSeq(s, a + 1, Len(s) - TrailingSpaces(s))

\* str.split('\n'): the pieces between line feeds; one piece at least.
RECURSIVE SplitLines(_)
SplitLines(s) ==
    IF \A i \in 1..Len(s) : s[i] # 10 THEN << s >>
    ELSE LET i == CHOOSE k \in 1..Len(s) :
                      s[k] = 10 /\ \A m \in 1..(k - 1) : s[m] # 10
         IN  << SubSeq(s, 1, i - 1) >> \o SplitLines(Drop(s, i + 1))

\* str.lower() on ASCII letters.
Lower(s) ==
    [i \in 1..Len(s) |-> IF s[i] \in 65..90 THEN s[i] + 32 ELSE s[i]]

\* Whether old occurs in s at position i.
OccursAt(s, old, i) ==
    /\ i + Len(old) - 1 <= Len(s)
    /\ SubSeq(s, i, i + Len(old) - 1) = old

\* str.replace(old, new): every non-overlapping occurrence, leftmost first.
\* With an empty old, new is inserted before every character and at the end.
RECURSIVE Replace(_, _, _)
Replace(s, old, new) ==
    IF old = << >>
    THEN IF s = << >> THEN new
         ELSE new \o << Head(s) >> \o Replace(Tail(s), old, new)
    ELSE IF s = << >> THEN << >>
         ELSE IF OccursAt(s, old, 1)
              THEN new \o Replace(Drop(s, Len(old) + 1), old, new)
              ELSE << Head(s) >> \o Replace(Tail(s), old, new)

\* The dictionary's items taken last to first.
RECURSIVE preprocess_text_reversed(_, _)
preprocess_text_reversed(dictionary, text) ==
    IF dictionary = << >> THEN text
    ELSE Replace(preprocess_text_reversed(Tail(dictionary), text),
                 Head(dictionary)[1], Head(dictionary)[2])

\* preprocess_text: the dictionary's items, in iteration order, each replaced
\* everywhere. A dictionary is a sequence of <<jp_term, en_term>> pairs.
RECURSIVE preprocess_text(_, _)
preprocess_text(dictionary, text) ==
    IF dictionary = << >> THEN text
    ELSE preprocess_text(Tail(dictionary),
                         Replace(text, Head(dictionary)[1], Head(dictionary)[2]))

\* The ranges without their last code points (< for <=).
IsJapaneseCharOpenEnded(code) ==
    \/ 12352 <= code /\ code < 12447
    \/ 12448 <= code /\ code < 12543
    \/ 19968 <= code /\ code < 40959

\* One character of Hiragana, Katakana or the CJK Unified Ideographs.
IsJapaneseChar(code) ==
    \/ 12352 <= code /\ code <= 12447
    \/ 12448 <= code /\ code <= 12543
    \/ 19968 <= code /\ code <= 40959

\* contains_japanese.
contains_japanese(text) ==
    \E i \in 1..Len(text) : IsJapaneseChar(text[i])

\* Python truthiness of a text or of None: `not x` is ~Truthy(x).
Truthy(x) ==
    x # None /\ x # << >>

(***************************************************************************)
(* The reply parser of translate_batch                                     *)
(***************************************************************************)

\* Whether s holds no line feed ('.' of the regex matches none).
NoLineFeed(s) ==
    \A i \in 1..Len(s) : s[i] # 10

\* Where (.+)$ can end in rest when it starts after p characters: at the end
\* of rest, or before a last line feed; 0 when it cannot match.
GroupEnd(rest, p) ==
    IF p < Len(rest) /\ NoLineFeed(Drop(rest, p + 1)) THEN Len(rest)
    ELSE IF /\ p < Len(rest) - 1
            /\ rest[Len(rest)] = 10
            /\ NoLineFeed(SubSeq(rest, p + 1, Len(rest) - 1))
         THEN Len(rest) - 1
         ELSE 0

\* No line taken as numbered.
MatchNumberedNever(line) ==
    None

\* re.match(r'^\d+[\.\)\:]\s*(.+)$', line): group 1 of the match, or None.
\* \d+ is followed by a separator only when it takes the whole run of digits;
\* \s* is greedy and gives characters back until (.+)$ matches.
MatchNumbered(line) ==
    LET d     == LeadingDigits(line)
        rest  == Drop(line, d + 2)
        ws    == LeadingSpaces(rest)
        cands == {p \in 0..ws : GroupEnd(rest, p) > 0}
        p     == CHOOSE q \in cands : \A r \in cands : r <= q
    IN  IF d = 0 \/ d + 1 > Len(line) \/ ~IsSeparator(line[d + 1]) THEN None
        ELSE IF cands = {} THEN None
        ELSE SubSeq(rest, p + 1, GroupEnd(rest, p))

\* A blank line taken as an empty translation.
ParseLineKeepsBlank(line) ==
    << IF MatchNumbered(line) # None THEN MatchNumbered(line) ELSE line >>

\* What a stripped line of the reply adds to translations: nothing when it
\* is blank, its group when it is numbered, else itself.
ParseLine(line) ==
    IF line = << >> THEN << >>
    ELSE CHOOSE translations \in
            { << IF m # None THEN m ELSE line >> : m \in { MatchNumbered(line) } } : TRUE

\* The loop over the reply's lines.
RECURSIVE ParseLines(_)
ParseLines(lines) ==
    IF lines = << >> THEN << >>
    ELSE CHOOSE translations \in
            { ParseLine(line) \o ParseLines(Tail(lines)) :
                 line \in { Strip(Head(lines)) } } : TRUE

\* translations after the loop over result.strip().split('\n'); the lines
\* are split once, before the loop.
ParseReply(result) ==
    CHOOSE translations \in
        { ParseLines(lines) : lines \in { SplitLines(Strip(result)) } } : TRUE

\* The tail padded with the first sources (the index not offset).
PadFromFirstSource(translations, preprocessed) ==
    IF Len(translations) >= Len(preprocessed) THEN translations
    ELSE translations \o
            [j \in 1..(Len(preprocessed) - Len(translations)) |-> preprocessed[j]]

\* while len(translations) < len(texts): append preprocessed[len(translations)]
PadWithSource(translations, preprocessed) ==
    IF Len(translations) >= Len(preprocessed) THEN translations
    ELSE translations \o
            [j \in 1..(Len(preprocessed) - Len(translations)) |->
                preprocessed[Len(translations) + j]]

\* No truncation.
TruncateNever(translations, n) ==
    translations

\* translations[:len(texts)]
Truncate(translations, n) ==
    SubSeq(translations, 1, IF Len(translations) < n THEN Len(translations) ELSE n)

(***************************************************************************)
(* Bounds of the model                                                     *)
(***************************************************************************)

\* The largest retry_attempts of a configuration.
MaxRetryAttempts == 1

\* The largest batch_size of a configuration.
MaxBatchSize == 2

\* The largest number of texts of a batch handed to translate_batch alone.
MaxTexts == 2

\* concurrent_files of the configuration of a concurrent run, and the number
\* of files of its folder.
MaxWorkers == 2
MaxFiles == 2

\* The largest context_lines, and the largest number of entries appended to
\* a context window between two resets.
MaxContextLines == 2
MaxAppends == 3

\* The largest number of blocks of a Record Set handed to the cleanup alone.
MaxBlocks == 2

\* How often the pipeline is run over a file, each run on the output of the
\* run before.
MaxRuns == 2

(***************************************************************************)
(* The texts, Record Sets and configurations the model draws from          *)
(***************************************************************************)

JpA == << 12354 >>
JpI == << 12356 >>
JpCat == << 29483 >>
EnA == << 65 >>
EnB == << 66 >>
EnCat == << 67 >>
Space == << 32 >>

\* 'monologue', and a spelling of it that str.lower() maps to it.
Sentinel == << 109, 111, 110, 111, 108, 111, 103, 117, 101 >>
SentinelCapital == << 77, 111, 110, 111, 108, 111, 103, 117, 101 >>

\* "1. A\n2. B", "1. <あ>" and "": replies of the remote service to a request.
ReplyTwoLines == << 49, 46, 32, 65, 10, 50, 46, 32, 66 >>
ReplyJapanese == << 49, 46, 32, 12354 >>

FileReplies == { ReplyTwoLines, ReplyJapanese, Empty }

\* The model identifiers of a configuration; NotSet is a missing key.
PrimaryModel == "primary"
AlternateModel == "alternate"
NotSet == "not set"

Block(jpName, enName, jpText, enText, choices) ==
    [jpName |-> jpName, enName |-> enName, jpText |-> jpText,
     enText |-> enText, choices |-> choices]

Choice(jpText, enText) ==
    [jpText |-> jpText, enText |-> enText]

\* Blocks: untranslated; translated; with white-space sources; with the
\* sentinel in its target fields; with choices.
BlockNew == Block(JpCat, Empty, JpA, Empty, << >>)
BlockDone == Block(JpA, EnA, JpA, EnB, << Choice(JpA, EnA) >>)
BlockSpaces == Block(Space, Empty, Space, Empty, << Choice(Space, Empty) >>)
BlockSentinel == Block(JpA, SentinelCapital, Empty, Sentinel, << >>)
BlockChoices ==
    Block(Empty, Empty, JpA, Sentinel, << Choice(JpI, Empty), Choice(JpA, EnB) >>)

\* The Record Sets: the 'text' array of a file.
RecordSets ==
    { << BlockNew >>, << BlockDone >>, << BlockSpaces >>, << BlockSentinel >>,
      << BlockChoices >>, << BlockNew, BlockChoices >>, << BlockDone, BlockSentinel >> }

\* The dictionary: it maps one name to its translation, and deletes one term.
Dictionaries ==
    { << << JpCat, EnCat >>, << JpI, Empty >> >> }

(***************************************************************************)
(* State                                                                   *)
(***************************************************************************)

VARIABLES
    config,     \* config.toml: trans_config and the llm_config as configured
    files,      \* json_files: the Record Sets of the input folder, in order
    output,     \* the output folder: per file, the Record Set written
    pl,         \* the pipeline instances: llm_config model and temperature,
                \* current_context
    wk          \* the threads: where each is in the code, and its locals

vars == << config, files, output, pl, wk >>

\* No output file has been written for a file.
NotWritten == << [written |-> FALSE] >>

\* The thread of main(), which runs the sequential modes.
MainThread == 0

\* The pipeline instance main() constructs.
MainPipeline == 0

(***************************************************************************)
(* _translate_json_batched: collection and partition                       *)
(***************************************************************************)

Item(kind, b, c, text) ==
    [kind |-> kind, b |-> b, c |-> c, text |-> text]

\* A name unit taken whatever its target holds (the test en_name == '' lost).
NameEligibleAlways(block) ==
    Truthy(block.jpName) /\ Truthy(Strip(block.jpName))

\* en_name == '' and jp_name and jp_name.strip()
NameEligible(block) ==
    block.enName = Empty /\ Truthy(block.jpName) /\ Truthy(Strip(block.jpName))

\* A text unit taken whatever its target holds (the test en_text == '' lost).
TextEligibleAlways(block) ==
    Truthy(block.jpText)

\* en_text == '' and jp_text
TextEligible(block) ==
    block.enText = Empty /\ Truthy(block.jpText)

\* choice.get('enText', '') == '' and choice.get('jpText')
ChoiceEligible(choice) ==
    choice.enText = Empty /\ Truthy(choice.jpText)

RECURSIVE NameItems(_, _)
NameItems(blocks, idx) ==
    IF idx > Len(blocks) THEN << >>
    ELSE (IF NameEligible(blocks[idx])
          THEN << Item("name", idx, 0, blocks[idx].jpName) >> ELSE << >>)
         \o NameItems(blocks, idx + 1)

RECURSIVE TextItems(_, _)
TextItems(blocks, idx) ==
    IF idx > Len(blocks) THEN << >>
    ELSE (IF TextEligible(blocks[idx])
          THEN << Item("text", idx, 0, blocks[idx].jpText) >> ELSE << >>)
         \o TextItems(blocks, idx + 1)

RECURSIVE ChoiceItemsOf(_, _, _)
ChoiceItemsOf(choices, idx, c) ==
    IF c > Len(choices) THEN << >>
    ELSE (IF ChoiceEligible(choices[c])
          THEN << Item("choice", idx, c, choices[c].jpText) >> ELSE << >>)
         \o ChoiceItemsOf(choices, idx, c + 1)

RECURSIVE ChoiceItems(_, _)
ChoiceItems(blocks, idx) ==
    IF idx > Len(blocks) THEN << >>
    ELSE ChoiceItemsOf(blocks[idx].choices, idx, 1) \o ChoiceItems(blocks, idx + 1)

\* The items gathered block by block (one list for the three kinds).
RECURSIVE CollectItemsBlockwise(_)
CollectItemsBlockwise(blocks) ==
    IF blocks = << >> THEN << >>
    ELSE CollectItemsBlockwise(SubSeq(blocks, 1, Len(blocks) - 1))
         \o NameItems(blocks, Len(blocks))
         \o TextItems(blocks, Len(blocks))
         \o ChoiceItems(blocks, Len(blocks))

\* all_items = name_items + text_items + choice_items
CollectItems(blocks) ==
    NameItems(blocks, 1) \o TextItems(blocks, 1) \o ChoiceItems(blocks, 1)

\* The number of batches rounded down (the last, partial batch lost).
NumBatchesFloor(n, batch_size) ==
    n \div batch_size

\* num_batches = (len(all_items) + batch_size - 1) // batch_size
NumBatches(n, batch_size) ==
    (n + batch_size - 1) \div batch_size

\* Every batch cut from the start of all_items (start_idx not advanced).
BatchItemsFromStart(all_items, batch_num, batch_size) ==
    SubSeq(all_items, 1,
           IF batch_size < Len(all_items) THEN batch_size ELSE Len(all_items))

\* all_items[start_idx:end_idx] of batch batch_num (0-based)
BatchItems(all_items, batch_num, batch_size) ==
    LET start_idx == batch_num * batch_size
        end_idx   == IF start_idx + batch_size < Len(all_items)
                     THEN start_idx + batch_size ELSE Len(all_items)
    IN  SubSeq(all_items, start_idx + 1, end_idx)

\* failed_items[i:i + batch_size]
FailedBatch(failed_items, i, batch_size) ==
    SubSeq(failed_items, i + 1,
           IF i + batch_size < Len(failed_items) THEN i + batch_size
           ELSE Len(failed_items))

\* The translation written over the source field in place of the target one.
WriteItemOverSource(data, item, translation) ==
    IF item.kind = "name" THEN [data EXCEPT ![item.b].jpName = translation]
    ELSE IF item.kind = "text" THEN [data EXCEPT ![item.b].jpText = translation]
    ELSE [data EXCEPT ![item.b].choices[item.c].jpText = translation]

\* obj['enName'] = translation, obj['enText'] = translation
WriteItem(data, item, translation) ==
    IF item.kind = "name" THEN [data EXCEPT ![item.b].enName = translation]
    ELSE IF item.kind = "text" THEN [data EXCEPT ![item.b].enText = translation]
    ELSE [data EXCEPT ![item.b].choices[item.c].enText = translation]

\* The target slot of an item in a Record Set.
Slot(data, item) ==
    IF item.kind = "name" THEN data[item.b].enName
    ELSE IF item.kind = "text" THEN data[item.b].enText
    ELSE data[item.b].choices[item.c].enText

\* zip(a, b)
Zip(a, b) ==
    [i \in 1..(IF Len(a) < Len(b) THEN Len(a) ELSE Len(b)) |-> << a[i], b[i] >>]

\* The writes of the loop over zip(batch_items, translations).
RECURSIVE WriteBatchItems(_, _)
WriteBatchItems(data, pairs) ==
    IF pairs = << >> THEN data
    ELSE WriteBatchItems(WriteItem(data, Head(pairs)[1], Head(pairs)[2]), Tail(pairs))

\* Every pair recorded as failed (the test contains_japanese lost).
FailedOfAll(pairs) ==
    pairs

\* The (item, translation) pairs that loop appends to failed_items.
FailedOf(pairs) ==
    SelectSeq(pairs, LAMBDA pr : contains_japanese(pr[2]))

(***************************************************************************)
(* translate_batch, _second_pass_translation, _clean_monologue_names:      *)
(* the computations between two remote calls                               *)
(***************************************************************************)

\* preprocessed = [self.preprocess_text(text) for text in texts]
PreprocessAll(dictionary, texts) ==
    [i \in 1..Len(texts) |-> preprocess_text(dictionary, texts[i])]

\* translations of translate_batch, after padding and truncation, for a reply
\* result that is a non-empty text.
BatchTranslations(dictionary, texts, result) ==
    CHOOSE translations \in
        { Truncate(PadWithSource(parsed, preprocessed), Len(texts)) :
            parsed \in { ParseReply(result) },
            preprocessed \in { PreprocessAll(dictionary, texts) } } : TRUE

\* One validation retry too many (<= for <).
BatchRetriesInclusive(cfg, retry_count, translations) ==
    /\ cfg.retry_on_japanese
    /\ retry_count <= cfg.retry_attempts
    /\ \E i \in 1..Len(translations) : contains_japanese(translations[i])

\* has_japanese, under retry_on_japanese and retry_count < max_retries
BatchRetries(cfg, retry_count, translations) ==
    /\ cfg.retry_on_japanese
    /\ retry_count < cfg.retry_attempts
    /\ \E i \in 1..Len(translations) : contains_japanese(translations[i])

\* not translations or all(not t for t in translations)
EmptyResults(translations) ==
    translations = << >> \/ \A i \in 1..Len(translations) : ~Truthy(translations[i])

\* Every result that is not empty, valid or not.
SecondPassFixesNonEmpty(new_translation) ==
    Truthy(new_translation)

\* The test under which the second pass overwrites a slot.
SecondPassFixes(new_translation) ==
    Truthy(new_translation) /\ ~contains_japanese(new_translation)

\* The pairs ((item, old_translation), new_translation) the second pass writes.
FixedOf(pairs) ==
    SelectSeq(pairs, LAMBDA pr : SecondPassFixes(pr[2]))

\* The writes of the loop over zip(batch, translations) of the second pass.
RECURSIVE WriteFixedItems(_, _)
WriteFixedItems(data, fixed) ==
    IF fixed = << >> THEN data
    ELSE WriteFixedItems(WriteItem(data, Head(fixed)[1][1], Head(fixed)[2]), Tail(fixed))

\* The alternate model whatever is configured.
SecondModelAlternate(cfg, original_model) ==
    AlternateModel

\* second_model = self.trans_config.get('second_pass_model', original_model)
SecondModel(cfg, original_model) ==
    IF cfg.second_pass_model = NotSet THEN original_model ELSE cfg.second_pass_model

\* The default of second_pass_temperature, in tenths.
DefaultSecondTemperature == 3

\* second_pass_temperature missing from the configuration (temperatures are
\* numbers, so the missing key is a number no temperature takes).
TemperatureNotSet == -1

\* The alternate temperature not taken from the configuration.
SecondTemperatureDefault(cfg) ==
    DefaultSecondTemperature

\* second_temp = self.trans_config.get('second_pass_temperature', 0.3)
SecondTemperature(cfg) ==
    IF cfg.second_pass_temperature = TemperatureNotSet THEN DefaultSecondTemperature
    ELSE cfg.second_pass_temperature

\* Only the model put back (the temperature left as the second pass set it).
RestoredModelOnly(pipeline, original_model, original_temp) ==
    [pipeline EXCEPT !.model = original_model]

\* self.llm_config['model'] = original_model; ...['temperature'] = original_temp
RestoredConfig(pipeline, original_model, original_temp) ==
    [pipeline EXCEPT !.model = original_model, !.temperature = original_temp]

\* The source text not looked at.
CleansTextWhateverSource(block) ==
    Lower(block.enText) = Sentinel

\* (not jp_text or not jp_text.strip()) and en_text.lower() == 'monologue'
CleansText(block) ==
    /\ ~Truthy(block.jpText) \/ ~Truthy(Strip(block.jpText))
    /\ Lower(block.enText) = Sentinel

\* en_name.lower() == 'monologue'
CleansName(block) ==
    Lower(block.enName) = Sentinel

\* _clean_monologue_names
clean_monologue_names(data) ==
    [i \in 1..Len(data) |->
        [data[i] EXCEPT !.enName = IF CleansName(data[i]) THEN Empty ELSE @,
                        !.enText = IF CleansText(data[i]) THEN Empty ELSE @]]

(***************************************************************************)
(* Threads and pipeline instances                                          *)
(***************************************************************************)

\* TranslationPipeline.__init__: llm_config as configured, an empty context.
NewPipeline(cfg) ==
    [model |-> cfg.model, temperature |-> cfg.temperature, current_context |-> << >>]

\* No request has been issued yet.
NoRequest ==
    [model |-> NotSet, temperature |-> 0, pass |-> "none", context |-> << >>,
     batch_context |-> << >>]

\* updates = {'blocks': {}, 'choices': {}} of read_sheet_data: a dict is a
\* function from its keys.
EmptyDict == [k \in { } |-> << >>]
NoUpdates == [blocks |-> EmptyDict, choices |-> EmptyDict]

\* A thread that has not started a file. run, origin and the fields after
\* `calls` record what the thread did (the run and the Record Set it started
\* from, requests issued, slots written, batches handed to translate_batch by
\* the loop over the batches, requests issued and failed since the caller of
\* translate_batch called it, the configuration a second pass
\* found, whether call_llm gave up in the second pass), and so does tt_calls
\* (the calls of call_llm since the caller of translate_text called it); the
\* code does not read them.
IdleThread ==
    [pc |-> "idle", file |-> 0, pid |-> MainPipeline, run |-> 1, origin |-> << >>,
     data |-> << >>, all_items |-> << >>, batch_num |-> 0,
     failed_items |-> << >>, translated_count |-> 0,
     tb_texts |-> << >>, tb_use_context |-> FALSE, tb_retry |-> 0,
     tb_caller |-> "none", tb_ret |-> << >>,
     cl_retry |-> 0, cl_caller |-> "none", cl_ret |-> None,
     seq_b |-> 0, seq_stage |-> "none", seq_c |-> 0,
     tt_text |-> << >>, tt_is_name |-> FALSE, tt_use_context |-> FALSE,
     tt_retry |-> 0, tt_ret |-> << >>, tt_calls |-> 0,
     cj_text |-> << >>, cj_ret |-> FALSE,
     pp_text |-> << >>, pp_ret |-> << >>,
     sheet |-> << >>, updates |-> NoUpdates, updated_count |-> 0,
     sp_i |-> 0, original_model |-> NotSet, original_temp |-> 0,
     retranslated_count |-> 0, model_not_loaded |-> FALSE,
     calls |-> 0, failed_calls |-> 0, content |-> None,
     recovered |-> << >>,
     file_calls |-> 0, last_req |-> NoRequest, writes |-> << >>,
     submitted |-> << >>, batch_calls |-> 0, batch_failed |-> 0,
     sp_state |-> "none", sp_before |-> NoRequest, sp_transport_failed |-> FALSE,
     appended |-> << >>, attempted |-> << >>, raised |-> { }]

\* Thread w moves to r.
Goto(w, r) ==
    wk' = [wk EXCEPT ![w] = r]

\* Where call_llm returns to.
AfterCallLlm(caller) ==
    IF caller = "batch" THEN "batch_result" ELSE "text_result"

\* Where translate_batch returns to.
AfterTranslateBatch(caller) ==
    IF caller = "first" THEN "write_batch"
    ELSE IF caller = "second" THEN "second_write"
    ELSE "returned"

\* The pass a thread's requests belong to.
PassOf(me) ==
    IF me.tb_caller = "second" /\ me.cl_caller = "batch" THEN "second" ELSE "first"

(***************************************************************************)
(* translate_json_file and _translate_json_batched                         *)
(***************************************************************************)

\* The window left as it is.
reset_context_kept(current_context) ==
    current_context

\* reset_context: self.current_context = []
reset_context(current_context) ==
    << >>

\* translate_json_file, to the choice of the mode: the Record Set is loaded
\* and the context window reset.
TranslateJsonFile(w) ==
    /\ wk[w].pc = "file"
    /\ pl' = [pl EXCEPT ![wk[w].pid].current_context = reset_context(@)]
    /\ Goto(w, [wk[w] EXCEPT
            !.pc = IF config.use_batch_translation THEN "batched" ELSE "sequential",
            !.data = files[wk[w].file], !.translated_count = 0,
            !.origin = IF wk[w].run = 1 THEN files[wk[w].file] ELSE @,
            !.seq_b = 1, !.seq_stage = "name", !.seq_c = 0,
            !.file_calls = 0, !.writes = << >>, !.submitted = << >>,
            !.sp_state = "none", !.sp_before = NoRequest,
            !.sp_transport_failed = FALSE])
    /\ UNCHANGED << config, files, output >>

\* _translate_json_batched, to the loop over the batches.
TranslateJsonBatched(w) ==
    /\ wk[w].pc = "batched"
    /\ LET all_items == CollectItems(wk[w].data)
       IN  Goto(w, [wk[w] EXCEPT
               !.pc = IF all_items = << >> THEN "clean" ELSE "batch_loop",
               !.all_items = all_items, !.batch_num = 0,
               !.failed_items = << >>, !.translated_count = 0])
    /\ UNCHANGED << config, files, output, pl >>

\* The use_context argument of a call of translate_batch that leaves it out.
UseContextDefault == TRUE

\* translate_batch(batch_texts, use_context=False) in the loop over the
\* batches of a file.
FilePassUseContext == FALSE

\* translate_batch(batch_texts, use_context=False) in the second pass.
SecondPassUseContext == FALSE

\* The head of the loop over the batches: the next batch goes to
\* translate_batch; after the last one the second pass runs if items failed
\* and enable_two_pass is set.
BatchLoop(w) ==
    /\ wk[w].pc = "batch_loop"
    /\ LET me == wk[w]
           batch_items == BatchItems(me.all_items, me.batch_num, config.batch_size)
       IN  IF me.batch_num < NumBatches(Len(me.all_items), config.batch_size)
           THEN Goto(w, [me EXCEPT
                    !.pc = "translate_batch", !.tb_caller = "first",
                    !.tb_use_context = FilePassUseContext,
                    !.submitted = @ \o << batch_items >>,
                    !.tb_texts = [i \in 1..Len(batch_items) |-> batch_items[i].text],
                    !.tb_retry = 0])
           ELSE Goto(w, [me EXCEPT
                    !.pc = IF me.failed_items # << >> /\ config.enable_two_pass
                           THEN "second_pass" ELSE "clean"])
    /\ UNCHANGED << config, files, output, pl >>

\* The loop over zip(batch_items, translations): every result is written,
\* and recorded as failed when it contains Japanese.
WriteBatch(w) ==
    /\ wk[w].pc = "write_batch"
    /\ LET me == wk[w]
           batch_items == BatchItems(me.all_items, me.batch_num, config.batch_size)
           pairs == Zip(batch_items, me.tb_ret)
       IN  Goto(w, [me EXCEPT
               !.pc = "batch_loop",
               !.data = WriteBatchItems(me.data, pairs),
               !.failed_items = @ \o FailedOf(pairs),
               !.translated_count = @ + Len(pairs),
               !.batch_num = @ + 1,
               !.writes = @ \o [i \in 1..Len(pairs) |->
                                   [pass |-> "first", item |-> pairs[i][1]]]])
    /\ UNCHANGED << config, files, output, pl >>

\* The end of translate_json_file: _clean_monologue_names, then the output
\* file is written.
CleanAndSave(w) ==
    /\ wk[w].pc = "clean"
    /\ output' = [output EXCEPT ![wk[w].file] = clean_monologue_names(wk[w].data)]
    /\ Goto(w, [wk[w] EXCEPT !.pc = "file_done",
                             !.data = clean_monologue_names(wk[w].data)])
    /\ UNCHANGED << config, files, pl >>

(***************************************************************************)
(* translate_batch and call_llm                                            *)
(***************************************************************************)

\* translate_batch, to its call of call_llm (an empty list returns at once).
TranslateBatch(w) ==
    /\ wk[w].pc = "translate_batch"
    /\ LET me == wk[w]
       IN  IF me.tb_texts = << >>
           THEN Goto(w, [me EXCEPT !.pc = AfterTranslateBatch(me.tb_caller),
                                   !.tb_ret = << >>])
           ELSE Goto(w, [me EXCEPT !.pc = "call_llm", !.cl_caller = "batch",
                                   !.cl_retry = 0, !.calls = 0,
                                   !.failed_calls = 0, !.content = None,
                                   !.recovered = IF me.tb_retry = 0 THEN << >> ELSE @])
    /\ UNCHANGED << config, files, output, pl >>

\* The entries of the context window that translate_text renders into its
\* request: none for a name, without use_context or with context_lines = 0.
TextContext(me) ==
    IF me.tt_use_context /\ ~me.tt_is_name /\ config.context_lines > 0
    THEN pl[me.pid].current_context ELSE << >>

\* What translate_batch puts in front of "Translate each line below:":
\* nothing, or build_context_string() and two newlines (one element, the
\* window the string is built from) when use_context and context_lines > 0.
BatchContext(me) ==
    IF me.tb_use_context /\ config.context_lines > 0
    THEN << pl[me.pid].current_context >> ELSE << >>

\* The request of call_llm as the thread's pipeline builds it: the context
\* argument (translate_batch passes ""), and the context at the head of the
\* text of a batch.
RequestOf(me) ==
    [model |-> pl[me.pid].model, temperature |-> pl[me.pid].temperature,
     pass |-> PassOf(me),
     context |-> IF me.cl_caller = "text" THEN TextContext(me) ELSE << >>,
     batch_context |-> IF me.cl_caller = "batch" THEN BatchContext(me) ELSE << >>]

\* One retry too many (<= for <).
RetriesLeftInclusive(retry_count, retry_attempts) ==
    retry_count <= retry_attempts

\* if retry_count < self.trans_config['retry_attempts']
RetriesLeft(retry_count, retry_attempts) ==
    retry_count < retry_attempts

\* call_llm: the request raises (connection error, timeout, error status,
\* malformed body). It is issued again while retry_count < retry_attempts,
\* and call_llm returns None after that.
RequestFails(w) ==
    /\ wk[w].pc = "call_llm"
    /\ LET me == wk[w]
           sent == [me EXCEPT !.calls = @ + 1, !.failed_calls = @ + 1,
                              !.file_calls = @ + 1, !.last_req = RequestOf(me),
                              !.batch_calls = IF me.cl_caller = "batch" THEN @ + 1 ELSE @,
                              !.batch_failed = IF me.cl_caller = "batch" THEN @ + 1 ELSE @]
       IN  IF RetriesLeft(me.cl_retry, config.retry_attempts)
           THEN Goto(w, [sent EXCEPT !.cl_retry = @ + 1])
           ELSE Goto(w, [sent EXCEPT !.pc = AfterCallLlm(me.cl_caller),
                                     !.cl_ret = None,
                                     !.sp_transport_failed = @ \/ PassOf(me) = "second"])
    /\ UNCHANGED << config, files, output, pl >>

\* call_llm: the request succeeds, and the stripped content of the first
\* completion is returned.
RequestSucceeds(w, replies) ==
    /\ wk[w].pc = "call_llm"
    /\ \E content \in replies :
         Goto(w, [wk[w] EXCEPT !.pc = AfterCallLlm(wk[w].cl_caller),
                               !.cl_ret = Strip(content), !.content = content,
                               !.calls = @ + 1, !.file_calls = @ + 1,
                               !.batch_calls =
                                  IF wk[w].cl_caller = "batch" THEN @ + 1 ELSE @,
                               !.last_req = RequestOf(wk[w])])
    /\ UNCHANGED << config, files, output, pl >>

\* How many translations the loop over the lines recovers from what call_llm
\* returned: none from None or from an empty text.
RecoveredFrom(result) ==
    IF Truthy(result) THEN Len(ParseReply(result)) ELSE 0

\* The test `if not result` never true.
NoResultNever(result) ==
    FALSE

\* if not result: return preprocessed
NoResult(result) ==
    ~Truthy(result)

\* translate_batch, from the return of call_llm: the preprocessed texts when
\* there is no result; else the reply parsed, padded and truncated, and the
\* whole call made again when a translation contains Japanese.
TranslateBatchResult(w) ==
    /\ wk[w].pc = "batch_result"
    /\ \E translations \in
             { BatchTranslations(config.dictionary, wk[w].tb_texts, wk[w].cl_ret) } :
       LET me == wk[w]
           seen == [me EXCEPT !.recovered = Append(@, RecoveredFrom(me.cl_ret))]
           back == [seen EXCEPT !.pc = AfterTranslateBatch(me.tb_caller),
                                !.batch_calls = 0, !.batch_failed = 0]
       IN  IF NoResult(me.cl_ret)
           THEN Goto(w, [back EXCEPT
                           !.tb_ret = PreprocessAll(config.dictionary, me.tb_texts)])
           ELSE IF BatchRetries(config, me.tb_retry, translations)
           THEN Goto(w, [seen EXCEPT !.pc = "translate_batch", !.tb_retry = @ + 1])
           ELSE Goto(w, [back EXCEPT !.tb_ret = translations])
    /\ UNCHANGED << config, files, output, pl >>

(***************************************************************************)
(* _second_pass_translation                                                *)
(***************************************************************************)

\* _second_pass_translation, to its loop: skipped when the second model is
\* the primary one, else the model and temperature are swapped.
SecondPassTranslation(w) ==
    /\ wk[w].pc = "second_pass"
    /\ LET me == wk[w]
           original_model == pl[me.pid].model
           original_temp  == pl[me.pid].temperature
           second_model   == SecondModel(config, original_model)
           before == [model |-> original_model, temperature |-> original_temp,
                      pass |-> "second", context |-> << >>]
       IN  IF second_model = original_model
           THEN /\ Goto(w, [me EXCEPT !.pc = "clean", !.sp_state = "skipped",
                                      !.sp_before = before])
                /\ UNCHANGED pl
           ELSE /\ pl' = [pl EXCEPT ![me.pid].model = second_model,
                                    ![me.pid].temperature = SecondTemperature(config)]
                /\ Goto(w, [me EXCEPT !.pc = "second_loop", !.sp_state = "running",
                                      !.sp_before = before,
                                      !.original_model = original_model,
                                      !.original_temp = original_temp,
                                      !.retranslated_count = 0, !.sp_i = 0,
                                      !.model_not_loaded = FALSE])
    /\ UNCHANGED << config, files, output >>

\* The head of the loop over the batches of failed items.
SecondPassLoop(w) ==
    /\ wk[w].pc = "second_loop"
    /\ LET me == wk[w]
           batch == FailedBatch(me.failed_items, me.sp_i, config.batch_size)
       IN  IF me.sp_i < Len(me.failed_items)
           THEN Goto(w, [me EXCEPT
                    !.pc = "translate_batch", !.tb_caller = "second",
                    !.tb_use_context = SecondPassUseContext,
                    !.tb_texts = [i \in 1..Len(batch) |-> batch[i][1].text],
                    !.tb_retry = 0])
           ELSE Goto(w, [me EXCEPT !.pc = "second_restore"])
    /\ UNCHANGED << config, files, output, pl >>

\* The body of that loop after translate_batch returned: empty results leave
\* the loop; else every new translation that is not empty and holds no
\* Japanese is written and counted.
SecondPassWrite(w) ==
    /\ wk[w].pc = "second_write"
    /\ LET me == wk[w]
           batch == FailedBatch(me.failed_items, me.sp_i, config.batch_size)
           fixed == FixedOf(Zip(batch, me.tb_ret))
       IN  IF EmptyResults(me.tb_ret)
           THEN Goto(w, [me EXCEPT !.pc = "second_restore",
                                   !.model_not_loaded = TRUE])
           ELSE Goto(w, [me EXCEPT
                    !.pc = "second_loop",
                    !.data = WriteFixedItems(me.data, fixed),
                    !.retranslated_count = @ + Len(fixed),
                    !.sp_i = @ + config.batch_size,
                    !.writes = @ \o [i \in 1..Len(fixed) |->
                                        [pass |-> "second", item |-> fixed[i][1][1]]]])
    /\ UNCHANGED << config, files, output, pl >>

\* The end of _second_pass_translation: the original model and temperature
\* are put back and the count is returned to _translate_json_batched.
SecondPassRestore(w) ==
    /\ wk[w].pc = "second_restore"
    /\ LET me == wk[w]
       IN  /\ pl' = [pl EXCEPT ![me.pid] =
                        RestoredConfig(@, me.original_model, me.original_temp)]
           /\ Goto(w, [me EXCEPT
                  !.pc = "clean",
                  !.sp_state = IF me.model_not_loaded THEN "abandoned" ELSE "completed",
                  !.translated_count = @ + me.retranslated_count])
    /\ UNCHANGED << config, files, output >>

(***************************************************************************)
(* _translate_json_sequential, translate_text and the context window       *)
(***************************************************************************)

\* The newest entry dropped in place of the oldest.
add_to_context_keep_oldest(current_context, context_lines, entry) ==
    IF context_lines > 0
    THEN IF Len(current_context) + 1 > context_lines THEN current_context
         ELSE Append(current_context, entry)
    ELSE current_context

\* add_to_context: the entry is appended and the oldest one dropped when the
\* window is over context_lines; nothing with context_lines = 0.
add_to_context(current_context, context_lines, entry) ==
    IF context_lines > 0
    THEN LET appended == Append(current_context, entry)
         IN  IF Len(appended) > context_lines THEN Tail(appended) ELSE appended
    ELSE current_context

\* The context entry of a block as the sequential pass left it.
ContextEntry(block) ==
    [jpName |-> block.jpName, jpText |-> block.jpText,
     enName |-> block.enName, enText |-> block.enText]

\* en_name == '' and jp_name
SeqNameEligible(block) ==
    block.enName = Empty /\ Truthy(block.jpName)

\* Thread record me calling translate_text(text, is_name, use_context).
CallTranslateText(me, text, is_name, use_context) ==
    [me EXCEPT !.pc = "translate_text", !.tt_text = text, !.tt_is_name = is_name,
               !.tt_use_context = use_context, !.tt_retry = 0, !.tt_calls = 0]

\* _translate_json_sequential between two calls of translate_text: the loop
\* over the blocks, and in a block its name, its text, add_to_context and
\* its choices.
TranslateJsonSequential(w) ==
    /\ wk[w].pc = "sequential"
    /\ LET me == wk[w]
           b  == me.seq_b
           block == me.data[b]
       IN  IF b > Len(me.data)
           THEN Goto(w, [me EXCEPT !.pc = "clean"]) /\ UNCHANGED pl
           ELSE IF me.seq_stage = "name"
           THEN /\ IF SeqNameEligible(block)
                   THEN Goto(w, CallTranslateText(me, block.jpName, TRUE, FALSE))
                   ELSE Goto(w, [me EXCEPT !.seq_stage = "text"])
                /\ UNCHANGED pl
           ELSE IF me.seq_stage = "text"
           THEN IF TextEligible(block)
                THEN Goto(w, CallTranslateText(me, block.jpText, FALSE, TRUE))
                     /\ UNCHANGED pl
                ELSE /\ pl' = [pl EXCEPT ![me.pid].current_context =
                                  add_to_context(@, config.context_lines,
                                                 ContextEntry(block))]
                     /\ Goto(w, [me EXCEPT !.seq_stage = "choices", !.seq_c = 1])
           ELSE /\ IF me.seq_c > Len(block.choices)
                   THEN Goto(w, [me EXCEPT !.seq_b = @ + 1, !.seq_stage = "name"])
                   ELSE IF ChoiceEligible(block.choices[me.seq_c])
                   THEN Goto(w, CallTranslateText(me, block.choices[me.seq_c].jpText,
                                                  FALSE, TRUE))
                   ELSE Goto(w, [me EXCEPT !.seq_c = @ + 1])
                /\ UNCHANGED pl
    /\ UNCHANGED << config, files, output >>

\* Whatever the dictionary changes returned at once, name or not.
NameShortcutAnyUnit(is_name, preprocessed, text) ==
    preprocessed # text

\* if is_name and preprocessed != text: return preprocessed
NameShortcut(is_name, preprocessed, text) ==
    is_name /\ preprocessed # text

\* translate_text, to its call of call_llm: a name the dictionary changes is
\* returned without a request.
TranslateText(w) ==
    /\ wk[w].pc = "translate_text"
    /\ LET me == wk[w]
           preprocessed == preprocess_text(config.dictionary, me.tt_text)
       IN  IF NameShortcut(me.tt_is_name, preprocessed, me.tt_text)
           THEN Goto(w, [me EXCEPT !.pc = "seq_write", !.tt_ret = preprocessed])
           ELSE Goto(w, [me EXCEPT !.pc = "call_llm", !.cl_caller = "text",
                                   !.tt_calls = @ + 1,
                                   !.cl_retry = 0, !.calls = 0,
                                   !.failed_calls = 0, !.content = None])
    /\ UNCHANGED << config, files, output, pl >>

\* if retry_on_japanese and retry_count < max_retries: contains_japanese(translated)
TextRetries(cfg, retry_count, translated) ==
    /\ cfg.retry_on_japanese
    /\ retry_count < cfg.retry_attempts
    /\ contains_japanese(translated)

\* translate_text, from the return of call_llm.
TranslateTextResult(w) ==
    /\ wk[w].pc = "text_result"
    /\ LET me == wk[w]
       IN  IF ~Truthy(me.cl_ret)
           THEN Goto(w, [me EXCEPT !.pc = "seq_write",
                             !.tt_ret = preprocess_text(config.dictionary, me.tt_text)])
           ELSE IF TextRetries(config, me.tt_retry, me.cl_ret)
           THEN Goto(w, [me EXCEPT !.pc = "translate_text", !.tt_retry = @ + 1])
           ELSE Goto(w, [me EXCEPT !.pc = "seq_write", !.tt_ret = me.cl_ret])
    /\ UNCHANGED << config, files, output, pl >>

\* _translate_json_sequential after translate_text returned: the result is
\* written; after a text, add_to_context.
SequentialWrite(w) ==
    /\ wk[w].pc = "seq_write"
    /\ LET me == wk[w]
           b  == me.seq_b
           item == IF me.seq_stage = "name" THEN Item("name", b, 0, me.tt_text)
                   ELSE IF me.seq_stage = "text" THEN Item("text", b, 0, me.tt_text)
                   ELSE Item("choice", b, me.seq_c, me.tt_text)
           data == WriteItem(me.data, item, me.tt_ret)
           wrote == [me EXCEPT !.pc = "sequential", !.data = data,
                               !.translated_count = @ + 1,
                               !.writes = Append(@, [pass |-> "sequential",
                                                     item |-> item])]
       IN  IF me.seq_stage = "name"
           THEN Goto(w, [wrote EXCEPT !.seq_stage = "text"]) /\ UNCHANGED pl
           ELSE IF me.seq_stage = "text"
           THEN /\ pl' = [pl EXCEPT ![me.pid].current_context =
                             add_to_context(@, config.context_lines,
                                            ContextEntry(data[b]))]
                /\ Goto(w, [wrote EXCEPT !.seq_stage = "choices", !.seq_c = 1])
           ELSE Goto(w, [wrote EXCEPT !.seq_c = @ + 1]) /\ UNCHANGED pl
    /\ UNCHANGED << config, files, output >>

(***************************************************************************)
(* translate_folder, sequential mode                                       *)
(***************************************************************************)

\* _translate_folder_sequential: the loop over json_files, one file after
\* the other on the pipeline of main().
TranslateFolderSequential(w) ==
    /\ w = MainThread
    /\ wk[w].pc \in {"idle", "file_done"}
    /\ IF wk[w].file < Len(files)
       THEN Goto(w, [wk[w] EXCEPT !.pc = "file", !.file = @ + 1,
                                  !.pid = MainPipeline,
                                  !.attempted = Append(@, wk[w].file + 1)])
       ELSE Goto(w, [wk[w] EXCEPT !.pc = "done"])
    /\ UNCHANGED << config, files, output, pl >>

\* The loop over the files is left.
AfterFileRaisesAbort ==
    "done"

\* Where an exception of translate_json_file leaves its caller: in the except
\* clause around the call, after which the file counts as handled.
AfterFileRaises ==
    "file_done"

\* translate_json_file raises: before it has translated anything (the input
\* file cannot be opened or is not JSON), or at its end (the output file
\* cannot be written). The caller catches the exception.
TranslateJsonFileRaises(w) ==
    /\ wk[w].pc \in { "file", "clean" }
    /\ Goto(w, [wk[w] EXCEPT !.pc = AfterFileRaises, !.raised = @ \cup { wk[w].file }])
    /\ UNCHANGED << config, files, output, pl >>

\* The pipeline is run again over the file, with the Record Set it wrote as
\* its input.
RunAgain(w) ==
    /\ wk[w].pc = "file_done"
    /\ wk[w].run < MaxRuns
    /\ files' = [files EXCEPT ![wk[w].file] = output[wk[w].file]]
    /\ Goto(w, [wk[w] EXCEPT !.pc = "file", !.run = @ + 1])
    /\ UNCHANGED << config, output, pl >>

(***************************************************************************)
(* The run of one folder by main()                                         *)
(***************************************************************************)

\* The configurations: config.toml with every key that the code reads with
\* [...] present. A parameter that the chosen mode never reads is fixed.
Configs ==
    { c \in [ model                  : { PrimaryModel },
              temperature            : { 7 },
              retry_attempts         : 0..MaxRetryAttempts,
              retry_on_japanese      : BOOLEAN,
              use_batch_translation  : BOOLEAN,
              batch_size             : 1..MaxBatchSize,
              enable_two_pass        : BOOLEAN,
              second_pass_model      : { NotSet, PrimaryModel, AlternateModel },
              second_pass_temperature : { TemperatureNotSet },
              context_lines          : { 0, 1 },
              dictionary             : Dictionaries ] :
        /\ c.use_batch_translation => c.context_lines = 0
        /\ ~c.use_batch_translation => c.batch_size = 1 /\ ~c.enable_two_pass
        /\ ~c.enable_two_pass => c.second_pass_model = NotSet
        /\ c.retry_attempts = 0 => c.retry_on_japanese }

\* The input folders: one file.
Folders ==
    { << r >> : r \in RecordSets }

Init ==
    /\ config \in Configs
    /\ files \in Folders
    /\ output = [f \in 1..Len(files) |-> NotWritten]
    /\ pl = [p \in { MainPipeline } |-> NewPipeline(config)]
    /\ wk = [w \in { MainThread } |-> IdleThread]

Next ==
    \/ TranslateFolderSequential(MainThread)
    \/ TranslateJsonFile(MainThread)
    \/ TranslateJsonBatched(MainThread)
    \/ BatchLoop(MainThread)
    \/ TranslateBatch(MainThread)
    \/ RequestFails(MainThread)
    \/ RequestSucceeds(MainThread, FileReplies)
    \/ TranslateBatchResult(MainThread)
    \/ WriteBatch(MainThread)
    \/ SecondPassTranslation(MainThread)
    \/ SecondPassLoop(MainThread)
    \/ SecondPassWrite(MainThread)
    \/ SecondPassRestore(MainThread)
    \/ TranslateJsonSequential(MainThread)
    \/ TranslateText(MainThread)
    \/ TranslateTextResult(MainThread)
    \/ SequentialWrite(MainThread)
    \/ CleanAndSave(MainThread)

Spec == Init /\ [][Next]_vars

(***************************************************************************)
(* Properties of the run of one file                                       *)
(***************************************************************************)

\* The thread of main() and the Record Set its file held when it was loaded.
Main == wk[MainThread]
Loaded == files[Main.file]

\* The file has been loaded and its run has not ended.
Running == Main.file > 0 /\ Main.pc \notin { "idle", "file", "file_done", "done" }

\* The run of the file has ended (the output is written).
Finished == Main.file > 0 /\ Main.pc \in { "file_done", "done" }

\* The translation units of a Record Set: every name, text and choice slot.
Units(data) ==
    { Item("name", b, 0, data[b].jpName) : b \in 1..Len(data) }
    \cup { Item("text", b, 0, data[b].jpText) : b \in 1..Len(data) }
    \cup UNION { { Item("choice", b, c, data[b].choices[c].jpText) :
                     c \in 1..Len(data[b].choices) } : b \in 1..Len(data) }

\* How often a pass wrote the slot of unit u.
WritesOf(pass, u) ==
    Cardinality({ i \in 1..Len(Main.writes) :
                    /\ Main.writes[i].pass = pass
                    /\ Main.writes[i].item.kind = u.kind
                    /\ Main.writes[i].item.b = u.b
                    /\ Main.writes[i].item.c = u.c })

\* C2. Write-once-if-empty: whatever the remote does, every slot that the
\* batch pass, the sequential pass or the second pass writes was empty when
\* the file was loaded, and until the cleanup a slot that was not empty then
\* holds what it held.
C2_WriteOnceIfEmpty ==
    /\ Main.file > 0 =>
         \A i \in 1..Len(Main.writes) : Slot(Loaded, Main.writes[i].item) = Empty
    /\ Running =>
         \A u \in Units(Loaded) :
            Slot(Loaded, u) # Empty => Slot(Main.data, u) = Slot(Loaded, u)

\* A run with a second pass has written, in a Record Set that held a
\* translated slot when it was loaded.
C2_Witness ==
    /\ Main.pc = "second_restore"
    /\ \E i \in 1..Len(Main.writes) : Main.writes[i].pass = "second"
    /\ \E u \in Units(Loaded) : Slot(Loaded, u) # Empty

\* C3. At-most-one overwrite: in a batched run every slot is written at most
\* once by the first pass, whatever retries its batch needed, and at most once
\* more by the second pass.
C3_AtMostOneOverwrite ==
    (Main.file > 0 /\ config.use_batch_translation) =>
        \A u \in Units(Loaded) :
            WritesOf("first", u) <= 1 /\ WritesOf("second", u) <= 1

\* A slot written by the first pass, after a validation retry of its batch,
\* and once more by the second pass.
C3_Witness ==
    /\ Finished
    /\ config.retry_attempts > 0
    /\ Len(Main.all_items) > config.batch_size
    /\ \E u \in Units(Loaded) : WritesOf("first", u) = 1 /\ WritesOf("second", u) = 1

\* C4 as claimed, for the units whose source is not only white space: at the
\* end of a batched run every unit with an empty target and a non-empty
\* source has been written exactly once, the second pass included.
C4_ExactlyOneWritePerRun ==
    (Finished /\ config.use_batch_translation) =>
        \A u \in Units(Loaded) :
            (Slot(Loaded, u) = Empty /\ Strip(u.text) # Empty) =>
                WritesOf("first", u) + WritesOf("second", u) = 1

\* C4, amended. At the end of a batched run every unit with an empty target
\* and a non-empty source (for a name: a source that is not only white space)
\* has been written exactly once by the first pass and at most once more by
\* the second pass, whatever the remote did; no other slot has been written.
C4_OneWriteInFirstPass ==
    (Finished /\ config.use_batch_translation) =>
        \A u \in Units(Loaded) :
            IF /\ Slot(Loaded, u) = Empty
               /\ u.text # Empty
               /\ u.kind = "name" => Strip(u.text) # Empty
            THEN WritesOf("first", u) = 1 /\ WritesOf("second", u) <= 1
            ELSE WritesOf("first", u) = 0 /\ WritesOf("second", u) = 0

\* A run of three units in two batches has ended: one unit written twice,
\* another once.
C4_Witness ==
    /\ Finished
    /\ config.use_batch_translation
    /\ Len(Main.all_items) > config.batch_size
    /\ \E u, v \in Units(Loaded) :
          /\ WritesOf("first", u) + WritesOf("second", u) = 2
          /\ WritesOf("first", v) + WritesOf("second", v) = 1

C7_TransportRetryBound ==
    /\ Main.calls <= 1 + config.retry_attempts
    /\ Main.pc = "call_llm" => Main.content = None /\ Main.calls = Main.failed_calls
    /\ Main.pc \in { "batch_result", "text_result" } =>
         IF Main.cl_ret = None
         THEN /\ Main.content = None
              /\ Main.failed_calls = 1 + config.retry_attempts
              /\ Main.calls = Main.failed_calls
         ELSE /\ Main.content # None
              /\ Main.cl_ret = Strip(Main.content)
              /\ Main.calls = Main.failed_calls + 1

\* call_llm has returned the reply of a request that followed a failed one.
C7_Witness ==
    /\ Main.pc = "batch_result"
    /\ Main.cl_ret = Strip(ReplyTwoLines)
    /\ Main.failed_calls = 1
    /\ Main.calls = 2

(***************************************************************************)
(* Two runs over a Record Set whose target fields are all populated         *)
(***************************************************************************)

\* Every enName and enText of the blocks and every enText of the choices is
\* non-empty.
AllPopulated(data) ==
    \A b \in 1..Len(data) :
        /\ data[b].enName # Empty
        /\ data[b].enText # Empty
        /\ \A c \in 1..Len(data[b].choices) : data[b].choices[c].enText # Empty

\* No target field is one that the cleanup blanks.
NoSentinel(data) ==
    \A b \in 1..Len(data) : ~CleansName(data[b]) /\ ~CleansText(data[b])

InitRerun ==
    /\ config \in Configs
    /\ files \in { f \in Folders : AllPopulated(f[1]) }
    /\ output = [f \in 1..Len(files) |-> NotWritten]
    /\ pl = [p \in { MainPipeline } |-> NewPipeline(config)]
    /\ wk = [w \in { MainThread } |-> IdleThread]

NextRerun ==
    \/ Next
    \/ RunAgain(MainThread)

SpecRerun == InitRerun /\ [][NextRerun]_vars

\* C1 as claimed: on a Record Set whose target fields are all non-empty, a run
\* and a second run over its output issue no request and change no field.
C1_Idempotent ==
    (Main.file > 0 /\ AllPopulated(Main.origin)) =>
        /\ Main.file_calls = 0
        /\ Main.writes = << >>
        /\ Running \/ Finished => Main.data = Main.origin

\* C1, amended. On a Record Set whose target fields are all non-empty and
\* none of which the cleanup blanks (no enName equal to 'monologue' whatever
\* its case, no enText equal to it in a block whose jpText is empty or white
\* space), a run and a second run over its output issue no request, write no
\* slot and leave every field, so the output equals the input.
C1_IdempotentWithoutSentinel ==
    (Main.file > 0 /\ AllPopulated(Main.origin) /\ NoSentinel(Main.origin)) =>
        /\ Main.file_calls = 0
        /\ Main.writes = << >>
        /\ Running \/ Finished => Main.data = Main.origin
        /\ Finished => output[Main.file] = Main.origin

\* The second run over such a Record Set has ended.
C1_Witness ==
    /\ Finished
    /\ Main.run = 2
    /\ AllPopulated(Main.origin)
    /\ NoSentinel(Main.origin)

(***************************************************************************)
(* translate_batch called on its own, with numbered replies                *)
(***************************************************************************)

\* str(n) for n >= 0.
RECURSIVE Decimal(_)
Decimal(n) ==
    IF n < 10 THEN << 48 + n >> ELSE Decimal(n \div 10) \o << 48 + (n % 10) >>

\* The reply "1. t_1\n2. t_2\n...": line i numbers ts[i].
RECURSIVE NumberedFrom(_, _)
NumberedFrom(ts, i) ==
    IF i > Len(ts) THEN << >>
    ELSE (IF i = 1 THEN << >> ELSE << 10 >>)
         \o Decimal(i) \o << 46, 32 >> \o ts[i] \o NumberedFrom(ts, i + 1)

Numbered(ts) ==
    NumberedFrom(ts, 1)

\* The texts t_i of the numbered replies: "A", "B", "", " A" and Japanese.
ReplyTexts ==
    { EnA, EnB, Empty, << 32, 65 >>, JpA }

\* The lists of n texts t_1 .. t_n.
ReplyLists(n) ==
    [1..n -> ReplyTexts]

\* The replies to a batch: numbered lines, from none to one more than the
\* largest batch.
BatchReplies ==
    { Numbered(ts) : ts \in UNION { ReplyLists(k) : k \in 0..(MaxTexts + 1) } }

\* The batches: up to MaxTexts source texts, every second of which the
\* dictionary changes.
BatchTexts ==
    { [i \in 1..n |-> IF i % 2 = 1 THEN JpA ELSE JpCat] : n \in 0..MaxTexts }

\* The retry_attempts of the configurations translate_batch is called with
\* on its own: no retry, or one (of the request, and of the validation).
HarnessRetryAttempts == { 0, 1 }

InitBatch ==
    /\ config \in { c \in Configs : /\ c.use_batch_translation /\ ~c.enable_two_pass
                                    /\ c.batch_size = 1
                                    /\ c.retry_attempts \in HarnessRetryAttempts }
    /\ files = << >>
    /\ output = << >>
    /\ pl = [p \in { MainPipeline } |-> NewPipeline(config)]
    /\ \E texts \in BatchTexts :
         wk = [w \in { MainThread } |->
                 [IdleThread EXCEPT !.pc = "translate_batch", !.tb_texts = texts,
                                    !.tb_retry = 0, !.tb_caller = "harness"]]

NextBatch ==
    \/ TranslateBatch(MainThread)
    \/ RequestFails(MainThread)
    \/ RequestSucceeds(MainThread, BatchReplies)
    \/ TranslateBatchResult(MainThread)

SpecBatch == InitBatch /\ [][NextBatch]_vars

\* translate_batch has returned to the caller that called it on its own.
Returned == Main.pc = "returned"

\* The preprocessed source texts of the batch.
Sources == PreprocessAll(config.dictionary, Main.tb_texts)

\* A text that a numbered line gives back as it is: not empty, no white
\* space at either end, no line feed.
PlainText(t) ==
    t # Empty /\ Strip(t) = t /\ NoLineFeed(t)

\* C8 as claimed: when translate_batch returns after a reply of exactly n
\* numbered lines "i. t_i" whose texts hold no Japanese, it returns
\* t_1 .. t_n.
C8_Reassembly ==
    (Returned /\ Main.content # None) =>
        \A ts \in ReplyLists(Len(Main.tb_texts)) :
            (/\ Main.content = Numbered(ts)
             /\ \A i \in 1..Len(ts) : ~contains_japanese(ts[i]))
            => Main.tb_ret = ts

\* C8, amended. When translate_batch returns after a reply of exactly n
\* numbered lines "i. t_i" whose texts hold no Japanese, are not empty and
\* have no white space at either end, it returns t_1 .. t_n in that order.
C8_ReassemblyOfPlainTexts ==
    (Returned /\ Main.content # None) =>
        \A ts \in ReplyLists(Len(Main.tb_texts)) :
            (/\ Main.content = Numbered(ts)
             /\ \A i \in 1..Len(ts) : ~contains_japanese(ts[i]) /\ PlainText(ts[i]))
            => Main.tb_ret = ts

\* A batch of two has returned "A", "B" from the reply "1. A\n2. B".
C8_Witness ==
    /\ Returned
    /\ Len(Main.tb_texts) = 2
    /\ Main.content = Numbered(<< EnA, EnB >>)
    /\ Main.tb_ret = << EnA, EnB >>

\* C9 as claimed: when a reply to the batch of n texts yields k < n
\* translations, the entries after the k-th of the list translate_batch
\* returns are the preprocessed sources of their positions.
C9_UnderCountPadding ==
    Returned =>
        \A a \in 1..Len(Main.recovered) :
            /\ Len(Main.tb_ret) = Len(Main.tb_texts)
            /\ \A j \in (Main.recovered[a] + 1)..Len(Main.tb_texts) :
                  Main.tb_ret[j] = Sources[j]

\* C9, amended. When the reply of the last attempt (the one no validation
\* retry follows) yields k < n translations, the list translate_batch returns
\* has n entries and each entry after the k-th is the preprocessed source
\* text of the unit at its own position.
C9_PaddingOfLastReply ==
    Returned =>
        /\ Len(Main.tb_ret) = Len(Main.tb_texts)
        /\ \A j \in (RecoveredFrom(Main.cl_ret) + 1)..Len(Main.tb_texts) :
              Main.tb_ret[j] = Sources[j]

\* A batch of two whose last reply held one line has returned, its second
\* source being one the dictionary changes.
C9_Witness ==
    /\ Returned
    /\ Main.tb_texts = << JpA, JpCat >>
    /\ RecoveredFrom(Main.cl_ret) = 1
    /\ Main.tb_ret = << EnA, EnCat >>

\* C10. Fail-open length: whatever the remote did, translate_batch returns as
\* many entries as it was given texts; the preprocessed sources in order when
\* call_llm gave up; and the first n translations when the last reply held
\* more than n.
C10_FailOpenLength ==
    Returned =>
        /\ Len(Main.tb_ret) = Len(Main.tb_texts)
        /\ (Main.tb_texts # << >> /\ Main.cl_ret = None) => Main.tb_ret = Sources
        /\ (Truthy(Main.cl_ret) /\ RecoveredFrom(Main.cl_ret) > Len(Main.tb_texts)) =>
              Main.tb_ret = SubSeq(ParseReply(Main.cl_ret), 1, Len(Main.tb_texts))

\* A batch of two has returned the first two of three recovered translations.
C10_Witness ==
    /\ Returned
    /\ Len(Main.tb_texts) = 2
    /\ RecoveredFrom(Main.cl_ret) = 3
    /\ Main.tb_ret = << EnA, EnB >>

(***************************************************************************)
(* _translate_folder_concurrent: the files of a folder on a thread pool    *)
(***************************************************************************)

\* The threads of the ThreadPoolExecutor.
Workers == 1..MaxWorkers

\* One pipeline for all the files: that of main().
ProcessFileSharedPipeline(f) ==
    MainPipeline

\* process_file constructs a TranslationPipeline for its file; the instance
\* is named by the file.
ProcessFilePipeline(f) ==
    f

\* translate_folder with concurrent_files > 1 and more than one file: the
\* executor is created and every file submitted. No file is taken yet.
TranslateFolderConcurrent(w) ==
    /\ w = MainThread
    /\ wk[w].pc = "idle"
    /\ MaxWorkers > 1 /\ Len(files) > 1
    /\ Goto(w, [wk[w] EXCEPT !.pc = "pool", !.file = 0])
    /\ UNCHANGED << config, files, output, pl >>

\* A thread of the pool is free when it is between two files. The threads
\* being interchangeable, the free thread with the lowest number is the one
\* that takes the next file.
TakesNextFile(w) ==
    /\ wk[w].pc \in { "idle", "file_done" }
    /\ \A v \in 1..(w - 1) : wk[v].pc \notin { "idle", "file_done" }

\* The first file again.
NextFileFirst(taken) ==
    1

\* The executor hands out the submitted files in the order of submission,
\* each once: after `taken` files the next one is file taken + 1.
NextFile(taken) ==
    taken + 1

\* A free thread of the pool takes the next submitted file: process_file
\* constructs its pipeline and calls translate_json_file. wk[MainThread].file
\* counts the files taken from the queue.
ProcessFile(w) ==
    /\ wk[MainThread].pc = "pool"
    /\ TakesNextFile(w)
    /\ wk[MainThread].file < Len(files)
    /\ LET f == NextFile(wk[MainThread].file)
           p == ProcessFilePipeline(f)
       IN  /\ pl' = [q \in DOMAIN pl \cup { p } |->
                        IF q = p THEN NewPipeline(config) ELSE pl[q]]
           /\ wk' = [wk EXCEPT ![MainThread].file = @ + 1,
                               ![w] = [IdleThread EXCEPT
                                          !.pc = "file", !.file = f, !.pid = p,
                                          !.attempted = Append(wk[w].attempted, f),
                                          !.raised = wk[w].raised]]
    /\ UNCHANGED << config, files, output >>

\* The same, but the construction of the pipeline raises (config.toml cannot
\* be read): process_file catches the exception and returns the failure. The
\* thread is free again and holds no file and no pipeline.
ProcessFileRaises(w) ==
    /\ wk[MainThread].pc = "pool"
    /\ TakesNextFile(w)
    /\ wk[MainThread].file < Len(files)
    /\ LET f == NextFile(wk[MainThread].file)
       IN  wk' = [wk EXCEPT ![MainThread].file = @ + 1,
                            ![w] = [IdleThread EXCEPT
                                       !.pc = AfterFileRaises,
                                       !.attempted = Append(wk[w].attempted, f),
                                       !.raised = wk[w].raised \cup { f }]]
    /\ UNCHANGED << config, files, output, pl >>

\* The with block of the executor ends when every file has been processed.
PoolDone(w) ==
    /\ w = MainThread
    /\ wk[w].pc = "pool"
    /\ wk[w].file = Len(files)
    /\ \A v \in Workers : wk[v].pc \in { "idle", "file_done" }
    /\ Goto(w, [wk[w] EXCEPT !.pc = "done"])
    /\ UNCHANGED << config, files, output, pl >>

\* A block with a text only, which the dictionary empties.
BlockText == Block(Empty, Empty, JpI, Empty, << >>)

\* The replies of the remote service in a concurrent run.
ConcurrentReplies == { ReplyTwoLines, ReplyJapanese }

\* The configurations of a concurrent run: batches with an escalation to the
\* alternate model, or one unit at a time with a context window.
ConcurrentConfigs ==
    { c \in Configs :
        /\ c.retry_attempts = 0
        /\ c.use_batch_translation =>
              /\ c.enable_two_pass
              /\ c.second_pass_model = AlternateModel
              /\ c.batch_size = MaxBatchSize
        /\ ~c.use_batch_translation => c.context_lines = 1 }

\* The folder of a concurrent run: MaxFiles files, no two neighbours alike.
ConcurrentFolders ==
    { [f \in 1..MaxFiles |-> IF f % 2 = 1 THEN << BlockNew >> ELSE << BlockText >>] }

InitConcurrent ==
    /\ config \in ConcurrentConfigs
    /\ files \in ConcurrentFolders
    /\ output = [f \in 1..Len(files) |-> NotWritten]
    /\ pl = [p \in { MainPipeline } |-> NewPipeline(config)]
    /\ wk = [w \in { MainThread } \cup Workers |-> IdleThread]

NextConcurrent ==
    \/ TranslateFolderConcurrent(MainThread)
    \/ PoolDone(MainThread)
    \/ \E w \in Workers : ProcessFile(w)
    \/ \E w \in Workers : ProcessFileRaises(w)
    \/ \E w \in Workers : TranslateJsonFileRaises(w)
    \/ \E w \in Workers : TranslateJsonFile(w)
    \/ \E w \in Workers : TranslateJsonBatched(w)
    \/ \E w \in Workers : BatchLoop(w)
    \/ \E w \in Workers : TranslateBatch(w)
    \/ \E w \in Workers : RequestFails(w)
    \/ \E w \in Workers : RequestSucceeds(w, ConcurrentReplies)
    \/ \E w \in Workers : TranslateBatchResult(w)
    \/ \E w \in Workers : WriteBatch(w)
    \/ \E w \in Workers : SecondPassTranslation(w)
    \/ \E w \in Workers : SecondPassLoop(w)
    \/ \E w \in Workers : SecondPassWrite(w)
    \/ \E w \in Workers : SecondPassRestore(w)
    \/ \E w \in Workers : TranslateJsonSequential(w)
    \/ \E w \in Workers : TranslateText(w)
    \/ \E w \in Workers : TranslateTextResult(w)
    \/ \E w \in Workers : SequentialWrite(w)
    \/ \E w \in Workers : CleanAndSave(w)

SpecConcurrent == InitConcurrent /\ [][NextConcurrent]_vars

\* The workers that have taken a file.
Busy == { w \in Workers : wk[w].file > 0 }

\* The last request of worker w carries the model and temperature of its own
\* pass, and context entries of blocks of its own file only.
OwnRequest(w) ==
    LET r == wk[w].last_req
        own == files[wk[w].file]
    IN  r.pass # "none" =>
            /\ r.model = IF r.pass = "second" THEN AlternateModel ELSE config.model
            /\ r.temperature = IF r.pass = "second" THEN DefaultSecondTemperature
                               ELSE config.temperature
            /\ \A i \in 1..Len(r.context) :
                  \E b \in 1..Len(own) : /\ r.context[i].jpName = own[b].jpName
                                         /\ r.context[i].jpText = own[b].jpText

\* Two workers never hold the same pipeline, and none holds that of main().
OwnPipeline(w) ==
    /\ wk[w].pid # MainPipeline
    /\ \A v \in Busy \ { w } : wk[v].pid # wk[w].pid

Isolated ==
    \A w \in Busy : OwnRequest(w) /\ OwnPipeline(w)

\* A step of worker w leaves the thread, the pipeline (model, temperature,
\* context window), the Record Set and the output of every other worker as
\* they were.
NoInterference ==
    \A w \in Workers :
        wk'[w] # wk[w] =>
            \A v \in Busy \ { w } :
                /\ wk'[v] = wk[v]
                /\ pl'[wk[v].pid] = pl[wk[v].pid]
                /\ output'[wk[v].file] = output[wk[v].file]

\* C6. Concurrent isolation: under every interleaving of the workers of the
\* pool, each worker that has taken a file holds a pipeline of its own; every
\* request it issues carries the model and temperature of its own pass (the
\* alternate ones in its second pass only) and context entries of its own
\* file; and a step of one worker changes nothing of another worker's
\* thread, pipeline, Record Set or output.
C6_ConcurrentIsolation ==
    [](Isolated) /\ [][NoInterference]_vars

\* One worker has received the reply to a request of its first pass while the
\* pipeline of the other one carries the alternate model of its second pass.
C6_Witness ==
    \E v, w \in Busy :
        /\ v # w
        /\ wk[v].sp_state = "running"
        /\ pl[wk[v].pid].model = AlternateModel
        /\ wk[w].pc = "batch_result"
        /\ wk[w].last_req.pass = "first"
        /\ wk[w].last_req.model = PrimaryModel

(***************************************************************************)
(* Properties of the escalation pass                                       *)
(***************************************************************************)

\* The thread of main() after the step.
MainAfter == wk'[MainThread]

\* C11 as claimed: when the request of a batch of the escalation pass yields
\* no text (every attempt failed, or the reply was empty), no slot of the
\* Record Set changes and no item is counted as fixed.
C11_KeepsPriorWithoutText ==
    [][(Main.pc = "second_write" /\ ~Truthy(Main.cl_ret)) =>
          /\ MainAfter.data = Main.data
          /\ MainAfter.retranslated_count = Main.retranslated_count]_vars

\* C12 as claimed: once call_llm has given up on a batch of the escalation
\* pass (every attempt failed), that pass issues no further request, and the
\* model and temperature found before the pass are put back after it.
C12_AbandonsOnTransportFailure ==
    /\ [][(Main.sp_state = "running" /\ Main.sp_transport_failed) =>
             MainAfter.file_calls = Main.file_calls]_vars
    /\ []((Main.sp_transport_failed /\ Main.sp_state \in { "abandoned", "completed" }) =>
             /\ pl[Main.pid].model = Main.sp_before.model
             /\ pl[Main.pid].temperature = Main.sp_before.temperature)

\* The writes of a pass so far.
WritesBy(pass) ==
    { i \in 1..Len(Main.writes) : Main.writes[i].pass = pass }

\* C13. Escalation trigger: a request or a write of the escalation pass
\* occurs only when the batch pass recorded a failed item and enable_two_pass
\* is set; and when the configured alternate model is the primary one, or
\* none is configured, the run issues no request of the escalation pass,
\* writes no slot in it, never changes the model or the temperature, and the
\* count of translated items is that of the batch pass (the pass returned 0).
C13_EscalationTrigger ==
    Running \/ Finished =>
        /\ (Main.last_req.pass = "second" \/ WritesBy("second") # { }
            \/ Main.sp_state # "none") =>
               Main.failed_items # << >> /\ config.enable_two_pass
        /\ config.second_pass_model \in { NotSet, config.model } =>
               /\ Main.last_req.pass # "second"
               /\ WritesBy("second") = { }
               /\ pl[Main.pid].model = config.model
               /\ pl[Main.pid].temperature = config.temperature
               /\ Main.sp_state \in { "none", "skipped" }
               /\ (Main.pc = "clean" /\ config.use_batch_translation) =>
                      Main.translated_count = Cardinality(WritesBy("first"))

\* A run with failed items and no alternate model configured has skipped the
\* escalation pass.
C13_Witness ==
    /\ Main.pc = "clean"
    /\ config.enable_two_pass /\ config.second_pass_model = NotSet
    /\ Main.failed_items # << >>
    /\ Main.sp_state = "skipped"

\* Items u and v name the same target slot.
SameSlot(u, v) ==
    u.kind = v.kind /\ u.b = v.b /\ u.c = v.c

\* The positions of the current batch of failed items whose new result is
\* not empty and holds no Japanese.
ValidResults ==
    LET first == Main.sp_i + 1
        last  == IF Main.sp_i + config.batch_size < Len(Main.failed_items)
                 THEN Main.sp_i + config.batch_size ELSE Len(Main.failed_items)
    IN  { i \in first..last :
            /\ i - Main.sp_i <= Len(Main.tb_ret)
            /\ Main.tb_ret[i - Main.sp_i] # Empty
            /\ ~contains_japanese(Main.tb_ret[i - Main.sp_i]) }

\* C14. Escalation overwrite rule: when the results of a batch of failed
\* items are handled, a target slot takes the new result if and only if it is
\* the slot of a failed item of that batch whose new result is not empty and
\* holds no Japanese; every other slot, and every source field, keeps its
\* value; the count of fixed items grows by the number of slots overwritten,
\* so it always equals the number of slots the pass has overwritten.
C14_EscalationOverwrite ==
    /\ [][Main.pc = "second_write" =>
            /\ \A u \in Units(Main.data) :
                  IF \E i \in ValidResults : SameSlot(Main.failed_items[i][1], u)
                  THEN \E i \in ValidResults :
                          /\ SameSlot(Main.failed_items[i][1], u)
                          /\ Slot(MainAfter.data, u) = Main.tb_ret[i - Main.sp_i]
                  ELSE Slot(MainAfter.data, u) = Slot(Main.data, u)
            /\ Units(MainAfter.data) = Units(Main.data)
            /\ MainAfter.retranslated_count =
                  Main.retranslated_count + Cardinality(ValidResults)]_vars
    /\ [](Main.sp_state \in { "running", "abandoned", "completed" } =>
            Main.retranslated_count = Cardinality(WritesBy("second")))

\* The escalation pass has ended with one failed item overwritten and one
\* left as the batch pass wrote it.
C14_Witness ==
    /\ Main.sp_state = "completed"
    /\ Len(Main.failed_items) = 2
    /\ Main.retranslated_count = 1
    /\ \E i \in 1..2 : Slot(Main.data, Main.failed_items[i][1]) = Main.failed_items[i][2]

(***************************************************************************)
(* The context window on its own: add_to_context and reset_context         *)
(***************************************************************************)

\* Three entries of a context window.
EntryA == [jpName |-> Empty, jpText |-> JpA, enName |-> Empty, enText |-> EnA]
EntryB == [jpName |-> Empty, jpText |-> JpI, enName |-> Empty, enText |-> EnB]
EntryC == [jpName |-> JpCat, jpText |-> JpCat, enName |-> EnCat, enText |-> Empty]

ContextEntries == { EntryA, EntryB, EntryC }

\* add_to_context(jp_name, jp_text, en_name, en_text) on the pipeline of the
\* thread; `appended` records the entries since the last reset.
AddToContext(w) ==
    /\ wk[w].pc = "context"
    /\ Len(wk[w].appended) < MaxAppends
    /\ \E entry \in ContextEntries :
         /\ pl' = [pl EXCEPT ![wk[w].pid].current_context =
                      add_to_context(@, config.context_lines, entry)]
         /\ Goto(w, [wk[w] EXCEPT !.appended = Append(@, entry)])
    /\ UNCHANGED << config, files, output >>

\* reset_context()
ResetContext(w) ==
    /\ wk[w].pc = "context"
    /\ pl' = [pl EXCEPT ![wk[w].pid].current_context = reset_context(@)]
    /\ Goto(w, [wk[w] EXCEPT !.appended = << >>])
    /\ UNCHANGED << config, files, output >>

\* The configurations with a window of 0 to MaxContextLines entries.
ContextConfigs ==
    { [c EXCEPT !.context_lines = n] :
        c \in { d \in Configs : ~d.use_batch_translation /\ d.retry_attempts = 0 },
        n \in 0..MaxContextLines }

InitContext ==
    /\ config \in ContextConfigs
    /\ files = << >>
    /\ output = << >>
    /\ pl = [p \in { MainPipeline } |-> NewPipeline(config)]
    /\ wk = [w \in { MainThread } |-> [IdleThread EXCEPT !.pc = "context"]]

NextContext ==
    \/ AddToContext(MainThread)
    \/ ResetContext(MainThread)

SpecContext == InitContext /\ [][NextContext]_vars

\* The last n entries of a sequence.
LastEntries(s, n) ==
    SubSeq(s, Len(s) - n + 1, Len(s))

\* C15. Context FIFO: with a capacity N >= 1 the window holds, after k appends
\* since the last reset, exactly the last min(k, N) appended entries in the
\* order of their appending, so never more than N; with capacity 0 it stays
\* empty; and after a reset (k = 0) it is empty.
C15_ContextFifo ==
    Main.pc = "context" =>
        LET window == pl[Main.pid].current_context
            k == Len(Main.appended)
            N == config.context_lines
        IN  /\ Len(window) <= N
            /\ N = 0 => window = << >>
            /\ N >= 1 => window = LastEntries(Main.appended, IF k < N THEN k ELSE N)

\* Capacity 2 and A, B, C appended: the window is B, C.
C15_Witness ==
    /\ Main.pc = "context"
    /\ config.context_lines = 2
    /\ Main.appended = << EntryA, EntryB, EntryC >>
    /\ pl[Main.pid].current_context = << EntryB, EntryC >>

(***************************************************************************)
(* _translate_folder_sequential over a folder of several files             *)
(***************************************************************************)

\* The folders of several files, and the configurations of their runs.
SeveralFiles ==
    [1..MaxFiles -> { << BlockNew >>, << BlockText >> }]

FolderConfigs ==
    { c \in Configs : c.retry_attempts = 0 }

InitFolder ==
    /\ config \in FolderConfigs
    /\ files \in SeveralFiles
    /\ output = [f \in 1..Len(files) |-> NotWritten]
    /\ pl = [p \in { MainPipeline } |-> NewPipeline(config)]
    /\ wk = [w \in { MainThread } |-> IdleThread]

NextFolder ==
    \/ Next
    \/ TranslateJsonFileRaises(MainThread)

SpecFolder == InitFolder /\ [][NextFolder]_vars

\* C16. Sequential orchestration: the files are attempted one after the
\* other in the order of their enumeration, none twice; the file being
\* processed is the last one attempted; and when the loop has ended every
\* file has been attempted, whether or not translate_json_file raised on an
\* earlier one, each file that did not raise having its output written.
C16_SequentialOrchestration ==
    /\ Len(Main.attempted) <= Len(files)
    /\ \A i \in 1..Len(Main.attempted) : Main.attempted[i] = i
    /\ Main.file = Len(Main.attempted)
    /\ Main.raised \subseteq 1..Len(Main.attempted)
    /\ Main.pc = "done" =>
          /\ Len(Main.attempted) = Len(files)
          /\ \A f \in 1..Len(files) : f \notin Main.raised <=> output[f] # NotWritten

\* The loop has ended after an exception on the first file; the second file
\* was processed and written.
C16_Witness ==
    /\ Main.pc = "done"
    /\ Main.raised = { 1 }
    /\ Main.attempted = << 1, 2 >>
    /\ output[2] # NotWritten

(***************************************************************************)
(* Properties of the thread pool                                           *)
(***************************************************************************)

\* How often the workers have taken file f.
TimesTaken(f) ==
    Cardinality({ << w, i >> \in Workers \X (1..MaxFiles) :
                    i <= Len(wk[w].attempted) /\ wk[w].attempted[i] = f })

\* The files on which process_file caught an exception.
FailedFiles ==
    UNION { wk[w].raised : w \in Workers }

CleanupBlocks ==
    { Block(JpA, enName, jpText, enText, choices) :
        enName \in { SentinelCapital, EnA, Empty },
        jpText \in { Empty, Space, JpA },
        enText \in { Sentinel, SentinelCapital, EnA },
        choices \in { << >>, << Choice(Empty, Sentinel) >> } }

CleanupRecordSets ==
    UNION { [1..n -> CleanupBlocks] : n \in 1..MaxBlocks }

\* translate_json_file has reached its call of _clean_monologue_names with
\* the Record Set as loaded.
InitCleanup ==
    /\ config \in { c \in Configs : ~c.use_batch_translation /\ c.retry_attempts = 0
                                    /\ c.context_lines = 0 }
    /\ files \in { << r >> : r \in CleanupRecordSets }
    /\ output = << NotWritten >>
    /\ pl = [p \in { MainPipeline } |-> NewPipeline(config)]
    /\ wk = [w \in { MainThread } |->
               [IdleThread EXCEPT !.pc = "clean", !.file = 1, !.data = files[1],
                                  !.origin = files[1]]]

NextCleanup ==
    CleanAndSave(MainThread)

SpecCleanup == InitCleanup /\ [][NextCleanup]_vars

\* Text t is 'monologue' up to the case of its letters.
IsSentinel(t) ==
    /\ Len(t) = Len(Sentinel)
    /\ \A i \in 1..Len(t) : t[i] = Sentinel[i] \/ t[i] = Sentinel[i] - 32

\* Text t is empty or white space only.
IsBlank(t) ==
    \A i \in 1..Len(t) : IsSpace(t[i])

\* C18. Cleanup sentinel: after _clean_monologue_names the target text of a
\* block is empty when its source text is empty or white space and its target
\* text was the sentinel in any case, and is what it was otherwise (also when
\* it was the sentinel and the source text is not blank); the target name is
\* empty when it was the sentinel in any case and is what it was otherwise;
\* source fields and choices are what they were.
C18_CleanupSentinel ==
    Main.pc = "file_done" =>
        /\ Len(Main.data) = Len(Main.origin)
        /\ output[Main.file] = Main.data
        /\ \A b \in 1..Len(Main.origin) :
              LET before == Main.origin[b]
                  after  == Main.data[b]
              IN  /\ after.jpName = before.jpName
                  /\ after.jpText = before.jpText
                  /\ after.choices = before.choices
                  /\ after.enName = IF IsSentinel(before.enName) THEN Empty
                                    ELSE before.enName
                  /\ after.enText = IF IsSentinel(before.enText) /\ IsBlank(before.jpText)
                                    THEN Empty ELSE before.enText

\* A Record Set has been cleaned in which one block with a white-space source
\* lost its sentinel and one with a Japanese source kept it.
C18_Witness ==
    /\ Main.pc = "file_done"
    /\ Len(Main.origin) = 2
    /\ Main.origin[1].jpText = Space /\ Main.origin[1].enText = SentinelCapital
    /\ Main.data[1].enText = Empty
    /\ Main.origin[2].jpText = JpA /\ Main.origin[2].enText = Sentinel
    /\ Main.data[2].enText = Sentinel


(***************************************************************************)
(* Context by mode                                                         *)
(***************************************************************************)

\* A block to translate whose name the dictionary leaves alone.
BlockNamed == Block(JpA, Empty, JpA, Empty, << >>)

\* The files of a run that fills the context window: a second block follows
\* a block with a name and a text to translate.
ModeFolders ==
    { << << BlockNew, BlockNamed >> >>, << << BlockNew, BlockChoices >> >> }

\* The configurations of such a run: every window size in every mode.
ModeConfigs ==
    { [c EXCEPT !.context_lines = n] :
        c \in { d \in Configs : d.retry_attempts = 0 }, n \in 0..MaxContextLines }

InitModes ==
    /\ config \in ModeConfigs
    /\ files \in ModeFolders
    /\ output = [f \in 1..Len(files) |-> NotWritten]
    /\ pl = [p \in { MainPipeline } |-> NewPipeline(config)]
    /\ wk = [w \in { MainThread } |-> IdleThread]

SpecModes == InitModes /\ [][Next]_vars

\* The request a step issues carries a context: as the context argument of
\* call_llm or at the head of the text of a batch.
CarriesContext(r) ==
    r.context # << >> \/ r.batch_context # << >>

\* C19: no request of the batched file pass or of the second pass carries a
\* context, whatever context_lines and the window are; a request that
\* carries one is the request of a single text or choice in the mode
\* without batches, and the request of a single name carries none.
C19_ContextByMode ==
    [][MainAfter.file_calls # Main.file_calls =>
         /\ Main.cl_caller = "batch" => ~CarriesContext(MainAfter.last_req)
         /\ config.use_batch_translation => ~CarriesContext(MainAfter.last_req)
         /\ MainAfter.last_req.pass = "second" => ~CarriesContext(MainAfter.last_req)
         /\ Main.cl_caller = "text" /\ Main.tt_is_name =>
               ~CarriesContext(MainAfter.last_req)
         /\ CarriesContext(MainAfter.last_req) =>
               /\ ~config.use_batch_translation
               /\ Main.cl_caller = "text"
               /\ ~Main.tt_is_name
               /\ config.context_lines > 0
               /\ MainAfter.last_req.context = pl[Main.pid].current_context]_vars

\* The second pass has issued a request without a context under a context
\* window of one line or more.
C19_Witness ==
    /\ config.use_batch_translation
    /\ config.context_lines > 0
    /\ Main.file_calls > 1
    /\ Main.last_req.pass = "second"
    /\ ~CarriesContext(Main.last_req)


(***************************************************************************)
(* contains_japanese on its own                                            *)
(***************************************************************************)

\* The length of the texts contains_japanese is given.
MaxChars == 2

\* The code points of those texts: the first and the last of each range,
\* their neighbours outside, U+3042 and the letter A.
HeuristicCodes ==
    { 12351, 12352, 12354, 12447, 12448, 12543, 12544,
      19967, 19968, 40959, 40960, 65 }

\* The texts of at most MaxChars characters.
HeuristicTexts ==
    UNION { [1..n -> HeuristicCodes] : n \in 0..MaxChars }

InitHeuristic ==
    /\ config \in { c \in Configs : c.retry_attempts = 0 /\ ~c.use_batch_translation
                                    /\ c.context_lines = 0 }
    /\ files = << >>
    /\ output = << >>
    /\ pl = [p \in { MainPipeline } |-> NewPipeline(config)]
    /\ \E text \in HeuristicTexts :
         wk = [w \in { MainThread } |->
                 [IdleThread EXCEPT !.pc = "contains_japanese", !.cj_text = text]]

\* contains_japanese(text) is called and returns.
ContainsJapanese(w) ==
    /\ wk[w].pc = "contains_japanese"
    /\ Goto(w, [wk[w] EXCEPT !.pc = "returned",
                             !.cj_ret = contains_japanese(wk[w].cj_text)])
    /\ UNCHANGED << config, files, output, pl >>

NextHeuristic ==
    ContainsJapanese(MainThread)

SpecHeuristic == InitHeuristic /\ [][NextHeuristic]_vars

\* U+3040..U+309F, U+30A0..U+30FF and U+4E00..U+9FFF.
InClaimedRanges(code) ==
    \/ code \in 12352..12447
    \/ code \in 12448..12543
    \/ code \in 19968..40959

\* C20: contains_japanese(text) is true exactly when a character of text is
\* in U+3040..U+309F, U+30A0..U+30FF or U+4E00..U+9FFF: false for the empty
\* text and for a text of characters outside the ranges, true for a text
\* with U+3042.
C20_ValidityHeuristic ==
    Main.pc = "returned" =>
        /\ Main.cj_ret <=>
              \E i \in 1..Len(Main.cj_text) : InClaimedRanges(Main.cj_text[i])
        /\ Main.cj_text = << >> => ~Main.cj_ret
        /\ (\A i \in 1..Len(Main.cj_text) : ~InClaimedRanges(Main.cj_text[i]))
              => ~Main.cj_ret
        /\ (\E i \in 1..Len(Main.cj_text) : Main.cj_text[i] = 12354) => Main.cj_ret

\* contains_japanese has returned true for a text whose only character of
\* the ranges is the last of the CJK Unified Ideographs.
C20_Witness ==
    /\ Main.pc = "returned"
    /\ Main.cj_ret
    /\ Main.cj_text = << 65, 40959 >>


(***************************************************************************)
(* preprocess_text on its own                                              *)
(***************************************************************************)

\* The number of entries of the dictionaries preprocess_text is given.
MaxEntries == 2

\* The terms and the translations of those dictionaries, and the characters
\* of the texts: a translation is a term of another entry, and a term is
\* part of another.
PreprocessTerms == { EnA, EnB, EnA \o EnB }
PreprocessTranslations == { Empty, EnB, EnCat }
PreprocessChars == { 65, 66 }

\* The dictionaries of at most MaxEntries entries: json.load gives a dict, so
\* no term occurs twice.
PreprocessDictionaries ==
    { d \in UNION { [1..n -> PreprocessTerms \X PreprocessTranslations] :
                       n \in 0..MaxEntries } :
        \A i, j \in 1..Len(d) : i # j => d[i][1] # d[j][1] }

\* The texts of at most MaxChars characters.
PreprocessTexts ==
    UNION { [1..n -> PreprocessChars] : n \in 0..MaxChars }

InitPreprocess ==
    /\ \E c \in { d \in Configs : d.retry_attempts = 0 /\ ~d.use_batch_translation
                                  /\ d.context_lines = 0 } :
         \E dictionary \in PreprocessDictionaries :
            config = [c EXCEPT !.dictionary = dictionary]
    /\ files = << >>
    /\ output = << >>
    /\ pl = [p \in { MainPipeline } |-> NewPipeline(config)]
    /\ \E text \in PreprocessTexts :
         wk = [w \in { MainThread } |->
                 [IdleThread EXCEPT !.pc = "preprocess_text", !.pp_text = text]]

\* preprocess_text(text) is called and returns.
PreprocessText(w) ==
    /\ wk[w].pc = "preprocess_text"
    /\ Goto(w, [wk[w] EXCEPT !.pc = "returned",
                             !.pp_ret = preprocess_text(config.dictionary,
                                                        wk[w].pp_text)])
    /\ UNCHANGED << config, files, output, pl >>

NextPreprocess ==
    PreprocessText(MainThread)

SpecPreprocess == InitPreprocess /\ [][NextPreprocess]_vars

\* The text after the first k entries of the dictionary have been applied,
\* one after another.
RECURSIVE ReplacedUpTo(_, _, _)
ReplacedUpTo(dictionary, text, k) ==
    IF k = 0 THEN text
    ELSE Replace(ReplacedUpTo(dictionary, text, k - 1),
                 dictionary[k][1], dictionary[k][2])

\* C21: preprocess_text returns the text with every entry of the dictionary
\* replaced everywhere, one entry after another in the dictionary's order;
\* with an empty dictionary it returns its input; it issues no request and
\* changes neither the dictionary nor the pipeline.
C21_DictionaryPreprocessor ==
    /\ [](Main.pc = "returned" =>
            /\ Main.pp_ret = ReplacedUpTo(config.dictionary, Main.pp_text,
                                          Len(config.dictionary))
            /\ config.dictionary = << >> => Main.pp_ret = Main.pp_text
            /\ Main.calls = 0)
    /\ [][/\ config' = config
          /\ pl' = pl
          /\ MainAfter.calls = Main.calls
          /\ MainAfter.pp_text = Main.pp_text]_vars

\* preprocess_text has returned a text that the second entry made from what
\* the first entry produced.
C21_Witness ==
    /\ Main.pc = "returned"
    /\ config.dictionary = << << EnA, EnB >>, << EnB, EnCat >> >>
    /\ Main.pp_text = EnA
    /\ Main.pp_ret = EnCat


(***************************************************************************)
(* The spreadsheet: export_to_excel.py and import_from_excel.py            *)
(***************************************************************************)

\* The value of a cell: none, a number or a text.
NoCell == [kind |-> "none", num |-> 0, str |-> << >>]
IntCell(n) == [kind |-> "int", num |-> n, str |-> << >>]
StrCell(s) == [kind |-> "str", num |-> 0, str |-> s]

\* ws.cell(..., value=text) read back: a cell written with '' holds no text.
TextCell(text) ==
    IF text = << >> THEN NoCell ELSE StrCell(text)

\* Python truthiness of the value of a cell: None, 0 and '' are false.
CellTruthy(cell) ==
    \/ cell.kind = "int" /\ cell.num # 0
    \/ cell.kind = "str" /\ cell.str # << >>

\* cell.value or ''
ValueOrEmpty(cell) ==
    IF CellTruthy(cell) THEN cell.str ELSE << >>

\* str(n) of a natural number.
RECURSIVE Digits(_)
Digits(n) ==
    IF n < 10 THEN << 48 + n >> ELSE Digits(n \div 10) \o << 48 + (n % 10) >>

\* str(cell.value) of a cell that holds a value.
StrOf(cell) ==
    IF cell.kind = "int" THEN Digits(cell.num) ELSE cell.str

\* sub in s
Contains(s, sub) ==
    \E i \in 1..(Len(s) + 1) : OccursAt(s, sub, i)

\* Whether int(s) returns (ASCII digits, white space around them allowed)
\* or raises ValueError.
IsIntLiteral(s) ==
    /\ Strip(s) # << >>
    /\ \A i \in 1..Len(Strip(s)) : IsDigit(Strip(s)[i])

\* The number a text of digits denotes.
RECURSIVE DigitsValue(_)
DigitsValue(s) ==
    IF s = << >> THEN 0
    ELSE 10 * DigitsValue(SubSeq(s, 1, Len(s) - 1)) + (s[Len(s)] - 48)

\* int(s)
IntOf(s) ==
    DigitsValue(Strip(s))

\* "-C"
ChoiceMark == << 45, 67 >>

\* f"{block_idx}-C{choice_idx + 1}", choice_idx counted from 0.
ChoiceKey(block_idx, choice_idx) ==
    Digits(block_idx) \o ChoiceMark \o Digits(choice_idx + 1)

\* "[Choice]"
ChoiceLabel == << 91, 67, 104, 111, 105, 99, 101, 93 >>

\* d[k] = v
DictSet(d, k, v) ==
    [x \in DOMAIN d \cup { k } |-> IF x = k THEN v ELSE d[x]]

\* A row of a sheet: the cells under blockIdx, enName, enText and QC.
Row(blockIdx, enName, enText, QC) ==
    [blockIdx |-> blockIdx, enName |-> enName, enText |-> enText, QC |-> QC]

\* add_json_to_workbook: the rows of the choices of a block.
RECURSIVE ChoiceRows(_, _, _)
ChoiceRows(block_idx, choices, choice_idx) ==
    IF choice_idx >= Len(choices) THEN << >>
    ELSE << Row(StrCell(ChoiceKey(block_idx, choice_idx)), StrCell(ChoiceLabel),
                TextCell(choices[choice_idx + 1].enText), NoCell) >>
         \o ChoiceRows(block_idx, choices, choice_idx + 1)

\* add_json_to_workbook: the row of each block, followed by the rows of its
\* choices; the QC cells are empty.
RECURSIVE ExportRows(_)
ExportRows(data) ==
    IF data = << >> THEN << >>
    ELSE << Row(IntCell(Head(data).blockIdx), TextCell(Head(data).enName),
                TextCell(Head(data).enText), NoCell) >>
         \o ChoiceRows(Head(data).blockIdx, Head(data).choices, 0)
         \o ExportRows(Tail(data))

\* read_sheet_data, the loop over the rows from row 2 on: a row whose
\* blockIdx cell is false is skipped; a row with "-C" in it is a choice; a
\* row whose blockIdx is no integer is skipped.
RECURSIVE read_sheet_data(_, _)
read_sheet_data(rows, updates) ==
    IF rows = << >> THEN updates
    ELSE LET row == Head(rows)
             block_idx_str == StrOf(row.blockIdx)
         IN  IF ~CellTruthy(row.blockIdx)
             THEN read_sheet_data(Tail(rows), updates)
             ELSE IF Contains(block_idx_str, ChoiceMark)
             THEN read_sheet_data(Tail(rows),
                    [updates EXCEPT !.choices =
                        DictSet(@, block_idx_str,
                                [enText |-> ValueOrEmpty(row.enText),
                                 QC |-> ValueOrEmpty(row.QC)])])
             ELSE IF IsIntLiteral(block_idx_str)
             THEN read_sheet_data(Tail(rows),
                    [updates EXCEPT !.blocks =
                        DictSet(@, IntOf(block_idx_str),
                                [enName |-> ValueOrEmpty(row.enName),
                                 enText |-> ValueOrEmpty(row.enText),
                                 QC |-> ValueOrEmpty(row.QC)])])
             ELSE read_sheet_data(Tail(rows), updates)

\* apply_updates, the target text of a block or of a choice given its entry
\* of the updates: the trimmed QC if it is not empty, else the trimmed
\* enText if it is not empty, else the text as it is.
UpdatedText(en_text, update_data) ==
    IF Truthy(Strip(update_data.QC)) THEN Strip(update_data.QC)
    ELSE IF Truthy(Strip(update_data.enText)) THEN Strip(update_data.enText)
    ELSE en_text

\* apply_updates, the target name of a block.
UpdatedName(en_name, update_data) ==
    IF Truthy(Strip(update_data.enName)) THEN Strip(update_data.enName)
    ELSE en_name

\* apply_updates, the choices of a block.
UpdatedChoices(block, updates) ==
    [i \in 1..Len(block.choices) |->
        LET choice_key == ChoiceKey(block.blockIdx, i - 1)
        IN  IF choice_key \in DOMAIN updates.choices
            THEN [block.choices[i] EXCEPT
                     !.enText = UpdatedText(@, updates.choices[choice_key])]
            ELSE block.choices[i]]

\* apply_updates, one block.
UpdatedBlock(block, updates) ==
    LET named == IF block.blockIdx \in DOMAIN updates.blocks
                 THEN [block EXCEPT
                          !.enText = UpdatedText(@, updates.blocks[block.blockIdx]),
                          !.enName = UpdatedName(@, updates.blocks[block.blockIdx])]
                 ELSE block
    IN  [named EXCEPT !.choices = UpdatedChoices(block, updates)]

\* apply_updates: the Record Set after the loop over its blocks.
apply_updates(data, updates) ==
    [b \in 1..Len(data) |-> UpdatedBlock(data[b], updates)]

\* The number of fields apply_updates changes.
RECURSIVE CountChanged(_, _)
CountChanged(before, after) ==
    IF before = << >> THEN 0
    ELSE (IF Head(before).enText # Head(after).enText THEN 1 ELSE 0)
         + (IF Head(before).enName # Head(after).enName THEN 1 ELSE 0)
         + Cardinality({ i \in 1..Len(Head(before).choices) :
                           Head(before).choices[i].enText
                              # Head(after).choices[i].enText })
         + CountChanged(Tail(before), Tail(after))

\* The blocks of an exported Record Set: block number n of a file has
\* blockIdx n, counted from 0; a block with an even blockIdx has two
\* choices.
ImportBlock(block_idx) ==
    [blockIdx |-> block_idx, enName |-> EnA, enText |-> EnA,
     choices |-> IF block_idx % 2 = 0
                 THEN << [enText |-> EnA], [enText |-> Empty] >> ELSE << >>]

ImportRecordSets ==
    { [b \in 1..n |-> ImportBlock(b - 1)] : n \in 1..MaxBlocks }

\* What a reviser leaves in a QC cell and in an enText cell: nothing, or a
\* text with a space before it.
RevisedQC == { NoCell, StrCell(Space \o EnB) }
RevisedText == { NoCell, StrCell(EnCat) }

\* The sheets a reviser makes of the exported rows: the QC cell and the
\* enText cell of any row may be filled in.
RevisedSheets(rows) ==
    { [r \in 1..Len(rows) |->
          [rows[r] EXCEPT !.QC = qc[r],
                          !.enText = IF en[r] = NoCell THEN @ ELSE en[r]]] :
        qc \in [1..Len(rows) -> RevisedQC], en \in [1..Len(rows) -> RevisedText] }

InitImport ==
    /\ config \in { c \in Configs : c.retry_attempts = 0 /\ ~c.use_batch_translation
                                    /\ c.context_lines = 0 }
    /\ files = << >>
    /\ output = << >>
    /\ pl = [p \in { MainPipeline } |-> NewPipeline(config)]
    /\ \E data \in ImportRecordSets :
         \E sheet \in RevisedSheets(ExportRows(data)) :
            wk = [w \in { MainThread } |->
                    [IdleThread EXCEPT !.pc = "read_sheet_data", !.origin = data,
                                       !.data = data, !.sheet = sheet]]

\* excel_to_json: updates = self.read_sheet_data(ws)
ReadSheetData(w) ==
    /\ wk[w].pc = "read_sheet_data"
    /\ Goto(w, [wk[w] EXCEPT !.pc = "apply_updates",
                             !.updates = read_sheet_data(wk[w].sheet, NoUpdates)])
    /\ UNCHANGED << config, files, output, pl >>

\* excel_to_json: updated_count = self.apply_updates(data, updates)
ApplyUpdates(w) ==
    /\ wk[w].pc = "apply_updates"
    /\ LET after == apply_updates(wk[w].data, wk[w].updates)
       IN  Goto(w, [wk[w] EXCEPT !.pc = "returned", !.data = after,
                                 !.updated_count = CountChanged(wk[w].data, after)])
    /\ UNCHANGED << config, files, output, pl >>

NextImport ==
    \/ ReadSheetData(MainThread)
    \/ ApplyUpdates(MainThread)

SpecImport == InitImport /\ [][NextImport]_vars

\* The row of the sheet whose blockIdx cell is the given one.
SheetRow(cell) ==
    CHOOSE row \in { Main.sheet[r] : r \in 1..Len(Main.sheet) } : row.blockIdx = cell

\* The row of block b of the Record Set, and of its choice i (from 1).
BlockRow(b) ==
    SheetRow(IntCell(Main.origin[b].blockIdx))
ChoiceRow(b, i) ==
    SheetRow(StrCell(ChoiceKey(Main.origin[b].blockIdx, i - 1)))

\* A cell of a row holds a text that is not blank.
Filled(cell) ==
    cell.kind = "str" /\ Strip(cell.str) # << >>

\* The text a row leaves in a slot that held en_text when its QC is empty.
WithoutQC(row, en_text) ==
    IF Filled(row.enText) THEN Strip(row.enText.str) ELSE en_text

\* C22: after apply_updates the target text of every block and of every
\* choice whose row has a QC is the trimmed QC, whatever the enText cell
\* and the text before, for every blockIdx; the QC of row
\* "{blockIdx}-C{i+1}" goes to choice i of that block and to no other slot.
C22_QCPrecedence ==
    Main.pc = "returned" =>
        \A b \in 1..Len(Main.origin) :
            /\ Filled(BlockRow(b).QC) =>
                  Main.data[b].enText = Strip(BlockRow(b).QC.str)
            /\ ~Filled(BlockRow(b).QC) =>
                  Main.data[b].enText = WithoutQC(BlockRow(b), Main.origin[b].enText)
            /\ \A i \in 1..Len(Main.origin[b].choices) :
                  /\ Filled(ChoiceRow(b, i).QC) =>
                        Main.data[b].choices[i].enText = Strip(ChoiceRow(b, i).QC.str)
                  /\ ~Filled(ChoiceRow(b, i).QC) =>
                        Main.data[b].choices[i].enText
                           = WithoutQC(ChoiceRow(b, i), Main.origin[b].choices[i].enText)


(***************************************************************************)
(* The batched pass: what it collects, in which order, and what it records *)
(***************************************************************************)

\* C23: in the batched pass no unit (name, text or choice) whose source is
\* empty or only white space is collected, sent to the remote service or
\* written.
C23_SkipsBlankSources ==
    (Main.file > 0 /\ config.use_batch_translation) =>
        /\ \A i \in 1..Len(Main.all_items) : ~IsBlank(Main.all_items[i].text)
        /\ Main.pc \in { "translate_batch", "call_llm", "batch_result" } =>
              \A i \in 1..Len(Main.tb_texts) : ~IsBlank(Main.tb_texts[i])
        /\ \A i \in 1..Len(Main.writes) : ~IsBlank(Main.writes[i].item.text)


\* Two blocks with a name, a text and choices to translate, and a pair of
\* blocks of which some slots are translated already.
BlockPair ==
    Block(JpA, Empty, JpI, Empty, << Choice(JpA, Empty), Choice(JpI, Empty) >>)
BlockLast == Block(JpI, Empty, JpA, Empty, << Choice(JpCat, Empty) >>)

OrderFolders ==
    { << << BlockPair, BlockLast >> >>, << << BlockChoices, BlockNew >> >> }

\* "1. A\n2. <あ>": a reply whose second line still is Japanese.
ReplyMixed == << 49, 46, 32, 65, 10, 50, 46, 32, 12354 >>

OrderReplies == { ReplyTwoLines, ReplyMixed }

\* The configurations of a batched run without retries: no second pass, or
\* one with the alternate model.
OrderConfigs ==
    { c \in Configs : /\ c.use_batch_translation
                      /\ c.retry_attempts = 0
                      /\ c.enable_two_pass => c.second_pass_model = AlternateModel }

InitOrder ==
    /\ config \in OrderConfigs
    /\ files \in OrderFolders
    /\ output = [f \in 1..Len(files) |-> NotWritten]
    /\ pl = [p \in { MainPipeline } |-> NewPipeline(config)]
    /\ wk = [w \in { MainThread } |-> IdleThread]

\* The run of a folder in batched mode.
NextOrder ==
    \/ TranslateFolderSequential(MainThread)
    \/ TranslateJsonFile(MainThread)
    \/ TranslateJsonBatched(MainThread)
    \/ BatchLoop(MainThread)
    \/ TranslateBatch(MainThread)
    \/ RequestFails(MainThread)
    \/ RequestSucceeds(MainThread, OrderReplies)
    \/ TranslateBatchResult(MainThread)
    \/ WriteBatch(MainThread)
    \/ SecondPassTranslation(MainThread)
    \/ SecondPassLoop(MainThread)
    \/ SecondPassWrite(MainThread)
    \/ SecondPassRestore(MainThread)
    \/ CleanAndSave(MainThread)

SpecOrder == InitOrder /\ [][NextOrder]_vars

\* The batches handed to translate_batch so far, one after another.
RECURSIVE Flatten(_)
Flatten(batches) ==
    IF batches = << >> THEN << >> ELSE Head(batches) \o Flatten(Tail(batches))

\* Names come before texts and texts before choices.
KindRank(kind) ==
    IF kind = "name" THEN 1 ELSE IF kind = "text" THEN 2 ELSE 3

\* Unit u is submitted before unit v: by kind, then by block, then by choice.
SubmittedBefore(u, v) ==
    \/ KindRank(u.kind) < KindRank(v.kind)
    \/ u.kind = v.kind /\ u.b < v.b
    \/ u.kind = v.kind /\ u.b = v.b /\ u.c < v.c

\* The units of the loaded Record Set the batched pass is to translate.
ToTranslate ==
    { u \in Units(Loaded) :
        /\ Slot(Loaded, u) = Empty
        /\ u.text # Empty
        /\ u.kind = "name" => Strip(u.text) # Empty }

\* The first pass has collected the units.
Collected ==
    /\ Main.file > 0
    /\ config.use_batch_translation
    /\ Main.pc \notin { "idle", "file", "batched" }

\* C24: the batched pass submits the names in block order, then the texts
\* in block order, then the choices in block and choice order; the batches
\* are the consecutive chunks of that sequence: each but the last of a run
\* has batch_size units, none is empty or larger than batch_size, and each
\* unit is in exactly one batch.
C24_CollectionAndPartition ==
    Collected =>
        LET sent == Flatten(Main.submitted)
        IN  /\ \A i, j \in 1..Len(sent) : i < j => SubmittedBefore(sent[i], sent[j])
            /\ { sent[i] : i \in 1..Len(sent) } \subseteq ToTranslate
            /\ \A u \in ToTranslate :
                  \A v \in { sent[i] : i \in 1..Len(sent) } :
                     SubmittedBefore(u, v) => u \in { sent[i] : i \in 1..Len(sent) }
            /\ \A k \in 1..Len(Main.submitted) :
                  /\ Len(Main.submitted[k]) >= 1
                  /\ Len(Main.submitted[k]) <= config.batch_size
                  /\ k < Len(Main.submitted) =>
                        Len(Main.submitted[k]) = config.batch_size
            /\ \A k \in 1..Len(Main.submitted) :
                  Cardinality(ToTranslate) - (k - 1) * config.batch_size
                     >= config.batch_size
                  => Len(Main.submitted[k]) = config.batch_size
            /\ Main.pc \in { "translate_batch", "call_llm", "batch_result" }
                  /\ Main.tb_caller = "first" =>
                     Main.tb_texts =
                        [i \in 1..Len(Main.submitted[Len(Main.submitted)]) |->
                            Main.submitted[Len(Main.submitted)][i].text]
            /\ Finished =>
                  { sent[i] : i \in 1..Len(sent) } = ToTranslate

\* A run of seven units (two names, two texts, three choices) has ended
\* after four batches, the last of one unit.
C24_Witness ==
    /\ Finished
    /\ config.use_batch_translation
    /\ Len(Main.submitted) = 4
    /\ Len(Flatten(Main.submitted)) = 7
    /\ Len(Main.submitted[4]) = 1
    /\ Main.submitted[1][2].b = 2


\* The units the first pass has written so far, in the order of the writes.
WrittenFirst ==
    SelectSeq(Main.writes, LAMBDA wr : wr.pass = "first")

\* C25: during and after the batch pass failed_items holds exactly the
\* written units whose result contains Japanese, each once and in the order
\* of submission, with the result; the slot of each holds that result.
C25_FailedItemRecording ==
    (Collected /\ Main.pc = "batch_loop") =>
        /\ \A i \in 1..Len(Main.failed_items) :
              /\ contains_japanese(Main.failed_items[i][2])
              /\ Slot(Main.data, Main.failed_items[i][1]) = Main.failed_items[i][2]
              /\ \E k \in 1..Len(WrittenFirst) :
                    WrittenFirst[k].item = Main.failed_items[i][1]
        /\ \A i, j \in 1..Len(Main.failed_items) :
              i < j => SubmittedBefore(Main.failed_items[i][1], Main.failed_items[j][1])
        /\ \A k \in 1..Len(WrittenFirst) :
              contains_japanese(Slot(Main.data, WrittenFirst[k].item)) =>
                 \E i \in 1..Len(Main.failed_items) :
                    Main.failed_items[i][1] = WrittenFirst[k].item

\* The batch pass has ended with two failed items between which a unit with
\* a clean result was submitted.
C25_Witness ==
    /\ Collected
    /\ Main.pc = "batch_loop"
    /\ Len(WrittenFirst) = Len(Main.all_items)
    /\ Len(Main.failed_items) >= 2
    /\ \E k \in 1..Len(Main.all_items) :
          /\ SubmittedBefore(Main.failed_items[1][1], Main.all_items[k])
          /\ SubmittedBefore(Main.all_items[k], Main.failed_items[2][1])
          /\ ~contains_japanese(Slot(Main.data, Main.all_items[k]))


(***************************************************************************)
(* Validation retries, termination, and the model of a request             *)
(***************************************************************************)

\* C26: translate_batch and translate_text make the whole call again
\* exactly when retry_on_japanese is set, a result contains Japanese and
\* fewer than retry_attempts validation retries have been made; otherwise the
\* last result is returned as it is; when call_llm gave up, the preprocessed
\* source is returned and no retry is made; without retry_on_japanese no
\* retry is made.
C26_ValidationRetryBound ==
    /\ [](/\ Main.tb_retry <= config.retry_attempts
          /\ Main.tt_retry <= config.retry_attempts
          /\ ~config.retry_on_japanese => Main.tb_retry = 0 /\ Main.tt_retry = 0)
    /\ [][Main.pc = "batch_result" /\ MainAfter.pc # "batch_result" =>
             LET translations ==
                    BatchTranslations(config.dictionary, Main.tb_texts, Main.cl_ret)
                 retried == MainAfter.pc = "translate_batch"
             IN  /\ retried <=>
                       /\ Truthy(Main.cl_ret)
                       /\ config.retry_on_japanese
                       /\ Main.tb_retry < config.retry_attempts
                       /\ \E i \in 1..Len(translations) :
                             contains_japanese(translations[i])
                 /\ retried =>
                       /\ MainAfter.tb_retry = Main.tb_retry + 1
                       /\ MainAfter.tb_texts = Main.tb_texts
                 /\ ~retried =>
                       /\ MainAfter.tb_retry = Main.tb_retry
                       /\ MainAfter.tb_ret =
                             IF Truthy(Main.cl_ret) THEN translations
                             ELSE PreprocessAll(config.dictionary, Main.tb_texts)]_vars
    /\ [][Main.pc = "text_result" /\ MainAfter.pc # "text_result" =>
             LET retried == MainAfter.pc = "translate_text"
             IN  /\ retried <=>
                       /\ Truthy(Main.cl_ret)
                       /\ config.retry_on_japanese
                       /\ Main.tt_retry < config.retry_attempts
                       /\ contains_japanese(Main.cl_ret)
                 /\ retried =>
                       /\ MainAfter.tt_retry = Main.tt_retry + 1
                       /\ MainAfter.tt_text = Main.tt_text
                 /\ ~retried =>
                       /\ MainAfter.tt_retry = Main.tt_retry
                       /\ MainAfter.tt_ret =
                             IF Truthy(Main.cl_ret) THEN Main.cl_ret
                             ELSE preprocess_text(config.dictionary, Main.tt_text)]_vars

\* translate_batch has returned a result with Japanese in it after its last
\* validation retry.
C26_Witness ==
    /\ Main.pc = "write_batch"
    /\ config.retry_on_japanese
    /\ config.retry_attempts > 0
    /\ Main.tb_retry = config.retry_attempts
    /\ Truthy(Main.cl_ret)
    /\ \E i \in 1..Len(Main.tb_ret) : contains_japanese(Main.tb_ret[i])


\* The run of a folder in which no step waits for ever: the code between two
\* requests runs on, and every request returns or fails.
SpecLive == Init /\ [][Next]_vars /\ WF_vars(Next)

\* C27: the run of a file ends with the output written, whatever the remote
\* returns; the caller's one call of translate_batch issues at most
\* (1 + retry_attempts) * (1 + retry_attempts) requests, and at most
\* 1 + retry_attempts when every request fails.
C27_FileRunTerminates ==
    /\ (Main.pc = "file") ~> (Finished /\ output[Main.file] # NotWritten)
    /\ [](Main.batch_calls <= (1 + config.retry_attempts) * (1 + config.retry_attempts))
    /\ [](Main.batch_failed = Main.batch_calls =>
             Main.batch_calls <= 1 + config.retry_attempts)

\* A batch for which (1 + retry_attempts) * (1 + retry_attempts) requests
\* were issued, retry_attempts being 1 or more.
C27_Witness ==
    /\ config.retry_attempts > 0
    /\ Main.pc = "batch_result"
    /\ Main.batch_calls = (1 + config.retry_attempts) * (1 + config.retry_attempts)


(***************************************************************************)
(* The model and temperature of the requests of a folder                   *)
(***************************************************************************)

\* A second_pass_temperature set in the configuration, in tenths.
AlternateTemperature == 2

\* Batched two-pass runs without retries: the second model missing, the
\* primary one or another one, the second temperature missing or set.
EscalationConfigs ==
    { [c EXCEPT !.second_pass_temperature = t] :
        c \in { d \in Configs : /\ d.use_batch_translation
                                /\ d.enable_two_pass
                                /\ d.retry_attempts = 0 },
        t \in { TemperatureNotSet, AlternateTemperature } }

InitEscalation ==
    /\ config \in EscalationConfigs
    /\ files \in SeveralFiles
    /\ output = [f \in 1..Len(files) |-> NotWritten]
    /\ pl = [p \in { MainPipeline } |-> NewPipeline(config)]
    /\ wk = [w \in { MainThread } |-> IdleThread]

\* The run of a folder in batched mode, the remote free to answer in
\* Japanese or with nothing.
NextEscalation ==
    \/ TranslateFolderSequential(MainThread)
    \/ TranslateJsonFile(MainThread)
    \/ TranslateJsonBatched(MainThread)
    \/ BatchLoop(MainThread)
    \/ TranslateBatch(MainThread)
    \/ RequestFails(MainThread)
    \/ RequestSucceeds(MainThread, FileReplies)
    \/ TranslateBatchResult(MainThread)
    \/ WriteBatch(MainThread)
    \/ SecondPassTranslation(MainThread)
    \/ SecondPassLoop(MainThread)
    \/ SecondPassWrite(MainThread)
    \/ SecondPassRestore(MainThread)
    \/ CleanAndSave(MainThread)

SpecEscalation == InitEscalation /\ [][NextEscalation]_vars

\* The slots the first pass of the file has written.
FirstPassWrites ==
    { i \in 1..Len(Main.writes) : Main.writes[i].pass = "first" }

\* C28: every request issued while the second pass of a file runs (between
\* the swap and the restore of a pass that is not skipped) carries the
\* configured second model and the configured second temperature (the
\* default when none is configured), and is issued only when every batch of
\* the first pass of the file has been written; every other request, of this
\* file or of a later file of the same pipeline, carries the primary model
\* and temperature.
C28_ModelCarriedByRequests ==
    [][ Main.pc = "call_llm" =>
          IF Main.sp_state = "running"
          THEN /\ config.second_pass_model \notin { NotSet, config.model }
               /\ MainAfter.last_req.model = config.second_pass_model
               /\ MainAfter.last_req.temperature =
                     (IF config.second_pass_temperature = TemperatureNotSet
                      THEN DefaultSecondTemperature
                      ELSE config.second_pass_temperature)
               /\ Main.batch_num = NumBatches(Len(Main.all_items), config.batch_size)
               /\ Cardinality(FirstPassWrites) = Len(Main.all_items)
          ELSE /\ MainAfter.last_req.model = config.model
               /\ MainAfter.last_req.temperature = config.temperature ]_vars

\* A request of the first pass of the second file has carried the primary
\* model and temperature, after a second pass with another model and a
\* configured temperature ran for the first file (whose output kept the
\* Japanese the first pass wrote).
C28_Witness ==
    /\ config.second_pass_model = AlternateModel
    /\ config.second_pass_temperature = AlternateTemperature
    /\ Main.file = 2
    /\ Main.pc = "batch_result"
    /\ Main.tb_caller = "first"
    /\ Main.last_req.model = PrimaryModel
    /\ Main.last_req.temperature = config.temperature
    /\ output[1] # NotWritten
    /\ \E b \in 1..Len(output[1]) : contains_japanese(output[1][b].enText)


(***************************************************************************)
(* The context window over the files of a folder                           *)
(***************************************************************************)

\* Folders of files of two blocks, one of which needs no translation.
WindowFolders ==
    [1..MaxFiles -> { << BlockDone, BlockText >>, << BlockNew, BlockChoices >> }]

\* Runs without retries and without a second pass, in either mode, with a
\* window of 0 to MaxContextLines entries.
WindowConfigs ==
    { [c EXCEPT !.context_lines = n] :
        c \in { d \in Configs : d.retry_attempts = 0 /\ ~d.enable_two_pass },
        n \in 0..MaxContextLines }

InitWindow ==
    /\ config \in WindowConfigs
    /\ files \in WindowFolders
    /\ output = [f \in 1..Len(files) |-> NotWritten]
    /\ pl = [p \in { MainPipeline } |-> NewPipeline(config)]
    /\ wk = [w \in { MainThread } |-> IdleThread]

\* The run of a folder in either mode, without a second pass.
NextWindow ==
    \/ TranslateFolderSequential(MainThread)
    \/ TranslateJsonFile(MainThread)
    \/ TranslateJsonBatched(MainThread)
    \/ BatchLoop(MainThread)
    \/ TranslateBatch(MainThread)
    \/ RequestFails(MainThread)
    \/ RequestSucceeds(MainThread, FileReplies)
    \/ TranslateBatchResult(MainThread)
    \/ WriteBatch(MainThread)
    \/ TranslateJsonSequential(MainThread)
    \/ TranslateText(MainThread)
    \/ TranslateTextResult(MainThread)
    \/ SequentialWrite(MainThread)
    \/ CleanAndSave(MainThread)

SpecWindow == InitWindow /\ [][NextWindow]_vars

\* The blocks of the file for which the sequential pass has reached
\* add_to_context: those before the current one, and the current one once
\* its choices are being handled. None in batched mode.
BlocksInContext ==
    IF config.use_batch_translation THEN 0
    ELSE IF Main.seq_stage = "choices" THEN Main.seq_b ELSE Main.seq_b - 1

\* One entry per such block of the current file, in block order.
EntriesOfFile ==
    [b \in 1..BlocksInContext |-> ContextEntry(Main.data[b])]

\* C29: all through the run of a file (so at each of its requests) the
\* window holds the last context_lines entries of the sequence that has one
\* entry per block of this file already processed, in block order, translated
\* or not, and nothing else: no entry of an earlier file. In batched mode
\* the window stays empty.
C29_WindowOfCurrentFile ==
    Running =>
        LET window == pl[Main.pid].current_context
            k == BlocksInContext
            N == config.context_lines
        IN  /\ window = LastEntries(EntriesOfFile, IF k < N THEN k ELSE N)
            /\ config.use_batch_translation => window = << >>

\* The request for the text of the second block of the second file, with a
\* window of two entries: it holds the entry of the first block of that file
\* (which needed no translation) and nothing of the two blocks of the first
\* file.
C29_Witness ==
    /\ ~config.use_batch_translation
    /\ config.context_lines = 2
    /\ Main.file = 2
    /\ Main.pc = "call_llm"
    /\ Main.seq_b = 2
    /\ Main.seq_stage = "text"
    /\ files[2][1] = BlockDone
    /\ pl[Main.pid].current_context = << ContextEntry(BlockDone) >>


(***************************************************************************)
(* Replies whose lines are misnumbered, unnumbered or blank                *)
(***************************************************************************)

\* The lines of a reply: "2. A", "B", "", " ", "1)B", "9:  A", "3." and
\* " 7.A ".
LineWrongNumber == << 50, 46, 32, 65 >>
LinePlain       == << 66 >>
LineParen       == << 49, 41, 66 >>
LineColon       == << 57, 58, 32, 32, 65 >>
LinePrefixOnly  == << 51, 46 >>
LinePadded      == << 32, 55, 46, 65, 32 >>

ReplyLines ==
    { LineWrongNumber, LinePlain, Empty, Space, LineParen, LineColon,
      LinePrefixOnly, LinePadded }

\* '\n'.join(lines)
RECURSIVE JoinLines(_)
JoinLines(lines) ==
    IF lines = << >> THEN << >>
    ELSE IF Len(lines) = 1 THEN Head(lines)
    ELSE Head(lines) \o << 10 >> \o JoinLines(Tail(lines))

\* The replies of one to MaxTexts + 1 such lines.
LineReplies ==
    { JoinLines(lines) : lines \in UNION { [1..k -> ReplyLines] : k \in 1..(MaxTexts + 1) } }

NextLines ==
    \/ TranslateBatch(MainThread)
    \/ RequestFails(MainThread)
    \/ RequestSucceeds(MainThread, LineReplies)
    \/ TranslateBatchResult(MainThread)

SpecLines == InitBatch /\ [][NextLines]_vars

\* The lines of a reply that are not blank, without the white space at their
\* ends, in the order of the reply.
RECURSIVE NonBlank(_)
NonBlank(lines) ==
    IF lines = << >> THEN << >>
    ELSE (IF Strip(Head(lines)) = Empty THEN << >> ELSE << Strip(Head(lines)) >>)
         \o NonBlank(Tail(lines))

\* Whether a line starts with digits and one of '.', ')' and ':'.
HasNumberPrefix(line) ==
    LET d == LeadingDigits(line)
    IN  d > 0 /\ d + 1 <= Len(line) /\ IsSeparator(line[d + 1])

\* What follows that prefix and the white space after it.
AfterPrefix(line) ==
    LET rest == Drop(line, LeadingDigits(line) + 2)
    IN  Drop(rest, LeadingSpaces(rest) + 1)

\* What the k-th line that is not blank gives to the k-th unit, as claimed.
ClaimedContribution(line) ==
    IF HasNumberPrefix(line) THEN AfterPrefix(line) ELSE line

\* The same, a line that is nothing but its prefix being given as it is.
Contribution(line) ==
    IF HasNumberPrefix(line) /\ AfterPrefix(line) # Empty THEN AfterPrefix(line)
    ELSE line

\* The lines of the reply translate_batch returned from, when it had one.
LinesReturnedFrom ==
    IF Returned /\ Main.content # None
    THEN CHOOSE kept \in { NonBlank(lines) : lines \in { SplitLines(Main.content) } } : TRUE
    ELSE << >>

\* The positions of the result that a line of the reply fills.
FilledPositions ==
    { k \in 1..Len(Main.tb_texts) : k <= Len(LinesReturnedFrom) }

\* C30 as claimed: when translate_batch returns from a reply, the k-th unit
\* gets the k-th line of the reply that is not blank, whatever its number:
\* the text after the prefix of a line that starts with digits and a
\* separator, and any other line as it is.
C30_PositionalParsing ==
    \A k \in FilledPositions :
        Main.tb_ret[k] = ClaimedContribution(LinesReturnedFrom[k])

\* C30: when translate_batch returns from a reply, the k-th unit gets the
\* k-th line of the reply that is not blank, whatever its number and however
\* many blank lines come before it: the text after the prefix and the white
\* space that follows it when the line starts with digits and a separator
\* and goes on after them, and else the line as it is (without the white
\* space at its ends), a line that is nothing but a prefix included.
C30_PositionalParsingOfLines ==
    \A k \in FilledPositions :
        Main.tb_ret[k] = Contribution(LinesReturnedFrom[k])

\* Returned from the reply "2. A", a blank line, "B": the two units got "A"
\* and "B".
C30_Witness ==
    /\ Returned
    /\ Main.content = JoinLines(<< LineWrongNumber, Empty, LinePlain >>)
    /\ Len(Main.tb_texts) = 2
    /\ Main.tb_ret = << EnA, EnB >>


(***************************************************************************)
(* What a run leaves alone in a Record Set                                 *)
(***************************************************************************)

\* A block of a file with its blockIdx, the key no line of the translation
\* reads or writes.
WithBlockIdx(block, block_idx) ==
    [key \in DOMAIN block \cup { "blockIdx" } |->
        IF key = "blockIdx" THEN block_idx ELSE block[key]]

\* Folders of one file of two blocks, whose blockIdx differ from their
\* places: a block to translate and one with choices, or one with the
\* sentinel in its target fields and one with white-space sources.
FrameFolders ==
    { << << WithBlockIdx(BlockNew, 7), WithBlockIdx(BlockChoices, 3) >> >>,
      << << WithBlockIdx(BlockSentinel, 5), WithBlockIdx(BlockSpaces, 0) >> >> }

\* Runs without retries, in either mode, with or without a second pass.
FrameConfigs ==
    { c \in Configs : c.retry_attempts = 0 }

InitFrame ==
    /\ config \in FrameConfigs
    /\ files \in FrameFolders
    /\ output = [f \in 1..Len(files) |-> NotWritten]
    /\ pl = [p \in { MainPipeline } |-> NewPipeline(config)]
    /\ wk = [w \in { MainThread } |-> IdleThread]

SpecFrame == InitFrame /\ [][Next]_vars

\* A Record Set without its target fields: the blocks in their order, each
\* with its blockIdx, its sources and the sources of its choices in their
\* order.
FrameOfChoices(choices) ==
    [i \in 1..Len(choices) |-> [key \in DOMAIN choices[i] \ { "enText" } |-> choices[i][key]]]

FrameOf(data) ==
    [b \in 1..Len(data) |->
        [key \in DOMAIN data[b] \ { "enName", "enText" } |->
            IF key = "choices" THEN FrameOfChoices(data[b].choices) ELSE data[b][key]]]

\* C31: all through the run of a file, and in the output it writes, the
\* Record Set differs from the input in nothing but the enName and enText of
\* blocks and the enText of choices: same blocks in the same order, same
\* blockIdx, same jpName, jpText and choice jpText, same choices in the same
\* order.
C31_FrameOfRun ==
    /\ Running => FrameOf(Main.data) = FrameOf(Loaded)
    /\ \A f \in 1..Len(files) :
          output[f] # NotWritten => FrameOf(output[f]) = FrameOf(files[f])

\* An output was written in which a block, a choice and nothing else of the
\* frame changed: the text of the second block was kept, the name of the
\* first one and a choice were translated, the blockIdx are 7 and 3.
C31_Witness ==
    /\ output[1] # NotWritten
    /\ files[1][1].blockIdx = 7
    /\ output[1][1].blockIdx = 7
    /\ output[1][2].blockIdx = 3
    /\ output[1][1].enName # files[1][1].enName
    /\ output[1][2].choices[1].enText # files[1][2].choices[1].enText
    /\ output[1][2].choices[2] = files[1][2].choices[2]


(***************************************************************************)
(* translate_text called on its own                                        *)
(***************************************************************************)

\* The texts translate_text is called with: one no entry of the dictionary
\* occurs in, one an entry replaces by a translation, one an entry replaces
\* by nothing, and white space.
UnitTexts == { JpA, JpCat, JpI, Space }

\* Sequential runs with 0 to MaxRetryAttempts retries.
UnitConfigs ==
    { c \in Configs : ~c.use_batch_translation }

\* translate_text(text, is_name, use_context) called by a caller that only
\* takes its result.
InitUnit ==
    /\ config \in UnitConfigs
    /\ files = << >>
    /\ output = << >>
    /\ pl = [p \in { MainPipeline } |-> NewPipeline(config)]
    /\ \E text \in UnitTexts, is_name \in BOOLEAN, use_context \in BOOLEAN :
         wk = [w \in { MainThread } |->
                 CallTranslateText(IdleThread, text, is_name, use_context)]

NextUnit ==
    \/ TranslateText(MainThread)
    \/ RequestFails(MainThread)
    \/ RequestSucceeds(MainThread, FileReplies)
    \/ TranslateTextResult(MainThread)

SpecUnit == InitUnit /\ [][NextUnit]_vars

\* The text after the dictionary, and whether the call is one for a name
\* that the dictionary changes.
UnitPreprocessed == preprocess_text(config.dictionary, Main.tt_text)
UnitIsChangedName == Main.tt_is_name /\ UnitPreprocessed # Main.tt_text

\* C32: translate_text for a name that the dictionary changes returns the
\* preprocessed name and no request is issued; every other call calls
\* call_llm once at each validation attempt (so 1 + the number of validation
\* retries in all), and whenever call_llm gives no text the preprocessed
\* source is returned at once.
C32_NameShortcut ==
    /\ [](UnitIsChangedName =>
             /\ Main.tt_calls = 0 /\ Main.file_calls = 0
             /\ Main.pc \in { "translate_text", "seq_write" }
             /\ Main.pc = "seq_write" => Main.tt_ret = UnitPreprocessed)
    /\ [](~UnitIsChangedName =>
             /\ Main.pc = "translate_text" => Main.tt_calls = Main.tt_retry
             /\ Main.pc \in { "call_llm", "text_result", "seq_write" } =>
                   Main.tt_calls = Main.tt_retry + 1
             /\ Main.pc \in { "text_result", "seq_write" } =>
                   Main.file_calls >= Main.tt_calls
             /\ Main.file_calls <= Main.tt_calls * (1 + config.retry_attempts))
    /\ [][ (Main.pc = "text_result" /\ ~Truthy(Main.cl_ret)) =>
              /\ MainAfter.pc = "seq_write"
              /\ MainAfter.tt_ret = UnitPreprocessed
              /\ MainAfter.tt_calls = Main.tt_calls ]_vars

\* A name that the dictionary turns into its translation has been returned
\* without a request.
C32_Witness ==
    /\ Main.pc = "seq_write"
    /\ Main.tt_is_name
    /\ Main.tt_text = JpCat
    /\ Main.tt_ret = EnCat
    /\ Main.file_calls = 0

====
